---- MODULE Spec2Model ----
(***************************************************************************)
(* A model of the Janus core (janus.c): the session registry, the request  *)
(* handler janus_process_incoming_request, the timeout sweeper             *)
(* janus_check_sessions, the transport callback janus_transport_gone, the  *)
(* API secret / token check and the trickle queue of a handle.             *)
(*                                                                         *)
(* Time.  The code only ever uses a timestamp in a difference with the     *)
(* current monotonic time (now - last_activity, now - received), so the    *)
(* model keeps the AGE of every timestamp, in seconds, instead of the      *)
(* timestamp: Tick lets TickLen seconds pass and adds them to every age,   *)
(* an assignment "x = janus_get_monotonic_time()" sets the age of x to 0.  *)
(* Ages saturate above every threshold the code compares them with.        *)
(*                                                                         *)
(* Threads.  "disp" is the thread that runs janus_process_incoming_request *)
(* or janus_process_incoming_admin_request for one request at a time, "wd" *)
(* the watchdog loop that runs janus_check_sessions, "tr" a transport      *)
(* thread inside janus_transport_gone.  A step of a thread is a stretch of *)
(* code up to the next point where it takes sessions_mutex.                *)
(***************************************************************************)
EXTENDS Integers, Sequences, FiniteSets, TLC

\* ------------------------------------------------------------------ bounds
MaxSessionId == 2        \* session ids are 1..MaxSessionId
MaxObjs == 2             \* janus_session objects ever allocated
MaxInstances == 2        \* transport instances
MaxHandles == 1          \* handles ever created
TickLen == 15            \* seconds that pass in one Tick
MaxTrickles == 2         \* trickle requests ever handled
MaxArray == 2            \* longest "candidates" array
MaxLeak == 2             \* references a counter may be off by
MaxWaited == 31          \* sleeps of the gathering wait that are counted
MaxQueued == 3           \* requests the transports ever enqueue

\* ------------------------------------------------------- program constants
TrickleMaxAge == 45      \* (now - trickle->received) > 45*G_USEC_PER_SEC
CleaningPolls == 30      \* waited >= 3*G_USEC_PER_SEC, in sleeps of 100000 us

NULL == 0                \* a null object pointer, or the id 0
ABSENT == -1             \* an integer field the request does not carry
NoStr == "<null>"        \* a null string, or a string field not carried
NonStr == "<nonstring>"  \* a field carried with a value that is no string

Objs == 1..MaxObjs
SessionIds == 1..MaxSessionId
Instances == 1..MaxInstances
HandleIds == 1..MaxHandles

\* values of session_timeout the configuration or the admin API may set
Timeouts == {0, TickLen}
\* ages saturate: the idle time of a session at the largest timeout, the age
\* of a trickle at the first multiple of TickLen above TrickleMaxAge
IdleCap == TickLen
AgeCap == ((TrickleMaxAge \div TickLen) + 1) * TickLen

LoadedPlugins == {"plugin.echo"}
PluginNames == LoadedPlugins \cup {"plugin.none"}
Tokens == {"tokenA", "tokenX"}
Secrets == {"s1", "s2"}

VARIABLES
    session_timeout,     \* static uint session_timeout
    admin_api_secret,    \* static char *admin_api_secret (NULL or a string)
    settings,            \* what the set_* verbs of the admin API set
    api_secret,          \* static char *api_secret (NULL or a string)
    auth_enabled,        \* janus_auth_is_enabled()
    tokens,              \* tokens the auth module knows
    allowed,             \* <<token, plugin>> pairs the auth module allows
    sess,                \* the janus_session objects
    sessions,            \* static GHashTable *sessions: id -> object
    sessions_mutex,      \* who holds sessions_mutex ("free" when nobody)
    handles,             \* the janus_ice_handle objects
    next_handle,         \* number of handles created so far
    disp,                \* the request handling thread
    wd,                  \* the watchdog thread (janus_check_sessions)
    tr,                  \* a transport thread in janus_transport_gone
    last,                \* the last request completed and its reply
    tcalls,              \* the calls the last step made to a transport
    plugin_destroyed,    \* handles whose plugin got destroy_session
    ice_parsed,          \* candidates given to janus_ice_trickle_parse
    ntrickles,           \* number of trickle requests with candidates so far
    wk,                  \* a pool worker handling a message with a JSEP
    pl,                  \* a plugin thread in janus_plugin_handle_sdp
    requests,            \* static GAsyncQueue *requests
    main,                \* main() after its start, and what it tears down
    unheld               \* mutexes unlocked by a thread that held them not

vars == <<session_timeout, admin_api_secret, settings, api_secret,
          auth_enabled, tokens, allowed, sess,
          sessions, sessions_mutex, handles, next_handle, disp, wd, tr, last,
          tcalls, plugin_destroyed, ice_parsed, ntrickles, wk, pl,
          requests, main, unheld>>

\* what only the admin API changes, but for session_timeout
authVars == <<admin_api_secret, settings, api_secret, auth_enabled, tokens,
              allowed>>

\* the queue of the requests, the main thread and the mutexes misused:
\* what the handlers of the requests leave alone, but for one path of attach
runVars == <<requests, main, unheld>>

\* what only the signalling of a handle changes
sigVars == <<ice_parsed, ntrickles, wk, pl>>

\* --------------------------------------------------------------- helpers
Min(a, b) == IF a < b THEN a ELSE b

Older(age, d, cap) == Min(age + d, cap)

\* ------------------------------------------------------------- sessions
NoSession ==
    [st |-> "none", session_id |-> 0, destroyed |-> 0, timeout |-> 0,
     idle |-> 0, source |-> NULL, ice_handles |-> {}, ref |-> 0,
     over |-> 0, timeouts |-> 0]

NoHandle ==
    [st |-> "none", session |-> NULL, app |-> NoStr, flags |-> {},
     stream |-> FALSE, agent |-> FALSE, pending_trickles |-> <<>>,
     text2pcap |-> FALSE, ref |-> 0, pref |-> 0, cdone |-> 0]

\* calls of the core to the origin transport of a session
SendTimeout(s) ==
    [call |-> "send_message", event |-> "timeout", instance |-> s.source,
     session_id |-> s.session_id, timeout |-> FALSE]
SessionOver(s, timeout) ==
    [call |-> "session_over", event |-> "none", instance |-> s.source,
     session_id |-> s.session_id, timeout |-> timeout]

\* the request handled last and the reply to it (all "none" while a request
\* is being handled): its verb, the session it was found to address, the
\* reply; destroyed is its session id when it was a destroy answered with
\* success; twice tells that it was a destroy of the session id whose destroy
\* was answered with success right before it; sent counts the calls of
\* send_message with a reply to the request, denied tells that one of them
\* was the UNAUTHORIZED of janus_request_check_secret; carried is the
\* "transaction" field of the request, transaction the one of the reply;
\* data is data.id of the reply to a create, list the "sessions" array of
\* the reply to list_sessions
NoLast ==
    [janus |-> "none", session |-> NULL, reply |-> "none", error |-> "none",
     destroyed |-> 0, twice |-> FALSE, sent |-> 0, denied |-> FALSE,
     carried |-> NoStr, transaction |-> NoStr, data |-> 0, list |-> {}]

NoReq ==
    [janus |-> "none", session_id |-> 0, handle_id |-> ABSENT, id |-> ABSENT,
     instance |-> NULL, apisecret |-> NoStr, token |-> NoStr,
     plugin |-> NoStr, candidate |-> "absent", candidates |-> "absent",
     len |-> 0, transaction |-> "t1"]

IdleDisp == [pc |-> "idle", req |-> NoReq, session |-> NULL]
IdleWd == [pc |-> "idle", todo |-> {}]
\* (mine, had: the sessions of the instance that were in the table at the
\* lock, and the handles in their maps)
IdleTr ==
    [pc |-> "idle", instance |-> NULL, todo |-> {}, cur |-> NULL,
     mine |-> {}, had |-> {}]

\* handle_message of the plugin was not called
NoResult == [type |-> "none", content |-> "null", text |-> NoStr]

\* (type, sdp: the jsep of the message; waited: the sleeps of 100 ms spent
\* waiting for CLEANING to clear; reply, error: the reply to the message the
\* worker handled last; stamp: the age of the value janus_get_monotonic_time
\* returned to the worker, while it has not stored it in last_activity;
\* result: what handle_message of the plugin returned for that message,
\* "none" when it was not called; plugindata, hint: the plugindata.data and
\* the hint of the reply)
IdleWk ==
    [pc |-> "idle", handle |-> NULL, type |-> "none", sdp |-> "none",
     waited |-> 0, reply |-> "none", error |-> "none", stamp |-> 0,
     result |-> NoResult, plugindata |-> "none", hint |-> NoStr]
\* (waited: the sleeps of 100 ms spent waiting for the candidates of the
\* handle to be gathered)
IdlePl ==
    [pc |-> "idle", handle |-> NULL, type |-> "none", updating |-> FALSE,
     waited |-> 0]

\* the objects the hash table holds
InTable == {sessions[i] : i \in SessionIds} \ {NULL}

\* janus_session_free: the finalizer run when the reference count is 0
\* (what is left is the freed memory: only the destroyed flag is kept)
janus_session_free(s) ==
    [s EXCEPT !.st = "freed", !.ice_handles = {}, !.source = NULL,
              !.idle = 0, !.timeout = 0, !.session_id = 0]

janus_refcount_decrease(s) ==
    IF s.ref = 1 THEN janus_session_free([s EXCEPT !.ref = 0])
    ELSE [s EXCEPT !.ref = @ - 1]

janus_refcount_increase(s) == [s EXCEPT !.ref = @ + 1]

\* the session after its origin transport, if it has one, was sent a
\* "timeout" event (timeout is TRUE) and was told session_over: over and
\* timeouts count these calls for the session
Notified(s, timeout) ==
    IF s.source = NULL THEN s
    ELSE [s EXCEPT !.over = @ + 1,
                   !.timeouts = IF timeout THEN @ + 1 ELSE @]

\* janus_session_handles_clear, on the session's side: the map is emptied
janus_session_handles_clear(s) == [s EXCEPT !.ice_handles = {}]

\* janus_session_destroy with no test of the destroyed flag
DestroyUnguarded(s) ==
    janus_refcount_decrease(
        janus_session_handles_clear([s EXCEPT !.destroyed = 1]))

\* janus_session_destroy: only the caller that flips destroyed 0 -> 1 clears
\* the handles and drops the reference of the registry
janus_session_destroy(s) ==
    IF s.destroyed # 0 THEN s
    ELSE janus_refcount_decrease(
             janus_session_handles_clear([s EXCEPT !.destroyed = 1]))

\* janus_ice_handle_destroy, on the handles' side: the plugin of every
\* attached handle of hs is told destroy_session
janus_ice_handle_destroy(H, hs) ==
    [h \in HandleIds |->
        IF h \in hs THEN [H[h] EXCEPT !.st = "destroyed",
                                      !.pending_trickles = <<>>]
        ELSE H[h]]

Attached(hs) == {h \in hs : handles[h].app # NoStr}

\* g_hash_table_remove(sessions, &session->session_id)
HashRemoveSkipped(T, id) == T
HashRemove(T, id) == [T EXCEPT ![id] = NULL]

\* janus_session_find: the table lookup (the caller adds the reference)
janus_session_find(id) == IF id \in SessionIds THEN sessions[id] ELSE NULL

\* ------------------------------------------------------- authorization
\* janus_strcmp_const_time: TRUE when the two strings are equal
janus_strcmp_const_time(a, b) == a = b

janus_auth_check_token(t) == t \in tokens

janus_auth_check_plugin(t, p) == <<t, p>> \in allowed

\* a JSON field of a request: NoStr (not carried), NonStr or a string
json_is_string(v) == v # NoStr /\ v # NonStr

\* what send_message of a transport returns: 0 when it took the message, a
\* negative number when it did not
SendResults == {0, -1}

\* the test of janus_request_check_secret (lines 668-689): TRUE when the
\* secret or the token of the request is accepted, or nothing is to check
Authorized(apisecret, token) ==
    IF api_secret = NoStr /\ ~auth_enabled THEN TRUE
    ELSE LET secret_authorized ==
                 /\ api_secret # NoStr
                 /\ json_is_string(apisecret)
                 /\ janus_strcmp_const_time(apisecret, api_secret)
             token_authorized ==
                 /\ auth_enabled
                 /\ json_is_string(token)
                 /\ janus_auth_check_token(token)
         IN  ~(~secret_authorized /\ ~token_authorized)

\* janus_request_check_secret: 0 for a request that passes the test;
\* otherwise the UNAUTHORIZED reply is sent and the value returned is the
\* one of janus_process_error, that is of send_message (sent)
janus_request_check_secret(apisecret, token, sent) ==
    IF Authorized(apisecret, token) THEN 0 ELSE sent

\* ------------------------------------------------------------- requests
Verbs == {"info", "ping", "create", "keepalive", "attach", "destroy",
          "detach", "hangup", "message", "trickle", "bogus"}

\* the session and handle ids as the handler reads them (lines 766-772)
HandleNum(req) == IF req.handle_id = ABSENT THEN 0 ELSE req.handle_id

\* the requests a client may send: every verb with every addressing
Requests ==
    {[NoReq EXCEPT !.janus = v, !.session_id = s, !.handle_id = h,
                   !.token = "tokenA"] :
        v \in Verbs \ {"create", "attach"}, s \in 0..MaxSessionId,
        h \in {ABSENT, 0} \cup HandleIds}
    \cup
    {[NoReq EXCEPT !.janus = "create", !.session_id = s, !.id = i,
                   !.instance = n, !.token = "tokenA"] :
        s \in 0..MaxSessionId, i \in {ABSENT} \cup (0..MaxSessionId),
        n \in Instances}
    \cup
    {[NoReq EXCEPT !.janus = "attach", !.session_id = s, !.handle_id = h,
                   !.token = t, !.plugin = p] :
        s \in 0..MaxSessionId, h \in {ABSENT, 0} \cup HandleIds,
        t \in Tokens, p \in PluginNames \cup {NoStr}}

\* create, keepalive, info and ping with every value of the apisecret and
\* token fields
AuthRequests ==
    {[NoReq EXCEPT !.janus = v, !.session_id = s, !.instance = 1,
                   !.apisecret = a, !.token = t] :
        v \in {"create", "keepalive", "info", "ping"},
        s \in 0..MaxSessionId,
        a \in {NoStr, NonStr} \cup Secrets,
        t \in {NoStr, NonStr} \cup Tokens}

\* what the fields "candidate" and "candidates" of a trickle may hold: no
\* value, a JSON object, a JSON array (of len elements) or another JSON value
JsonKinds == {"absent", "object", "array", "other"}

TrickleRequests ==
    {r \in {[NoReq EXCEPT !.janus = "trickle", !.session_id = 1,
                          !.handle_id = 1, !.token = "tokenA",
                          !.candidate = c, !.candidates = cs, !.len = n] :
               c \in JsonKinds, cs \in JsonKinds, n \in 0..MaxArray} :
        /\ r.len > 0 => (r.candidate = "array" \/ r.candidates = "array")
        /\ (r.candidate # "absent" /\ r.candidates # "absent") =>
               (r.candidate = "object" /\ r.candidates = "array")}

\* the requests of a well-behaved client: the session verbs on a session id,
\* detach on a handle id
LifeRequests ==
    {r \in Requests :
        \/ r.janus = "create" /\ r.session_id = 0 /\ r.id # 0
        \/ /\ r.janus \in {"keepalive", "destroy"}
           /\ r.session_id > 0 /\ r.handle_id = ABSENT
        \/ /\ r.janus = "attach" /\ r.session_id > 0
           /\ r.handle_id = ABSENT /\ r.plugin # NoStr
        \/ r.janus = "detach" /\ r.session_id > 0 /\ r.handle_id > 0}

\* the reply sent for the request of the handler (janus_process_success,
\* janus_process_error); a successful destroy is remembered
Twice == disp.req.janus = "destroy" /\ last.destroyed = disp.req.session_id
SuccessAfterCheck(reply) ==
    [janus |-> disp.req.janus, session |-> disp.session,
     reply |-> IF Authorized(disp.req.apisecret, disp.req.token)
               THEN reply ELSE "error",
     error |-> IF Authorized(disp.req.apisecret, disp.req.token)
               THEN "none" ELSE "UNAUTHORIZED",
     destroyed |-> IF disp.req.janus = "destroy" THEN disp.req.session_id
                   ELSE 0,
     twice |-> Twice, sent |-> last.sent + 1,
     denied |-> ~Authorized(disp.req.apisecret, disp.req.token),
     carried |-> disp.req.transaction, transaction |-> disp.req.transaction,
     data |-> 0, list |-> {}]
Success(reply) ==
    [janus |-> disp.req.janus, session |-> disp.session, reply |-> reply,
     error |-> "none",
     destroyed |-> IF disp.req.janus = "destroy" THEN disp.req.session_id
                   ELSE 0,
     twice |-> Twice, sent |-> last.sent + 1, denied |-> last.denied,
     carried |-> disp.req.transaction, transaction |-> disp.req.transaction,
     data |-> 0, list |-> {}]
Error(error) ==
    [janus |-> disp.req.janus, session |-> disp.session, reply |-> "error",
     error |-> error, destroyed |-> 0, twice |-> Twice,
     sent |-> last.sent + 1, denied |-> last.denied,
     carried |-> disp.req.transaction, transaction |-> disp.req.transaction,
     data |-> 0, list |-> {}]
\* the reply to a request whose top-level fields are not valid (line 782):
\* janus_process_error_string is called with a NULL transaction
TopLevelError(error) == [Error(error) EXCEPT !.transaction = NoStr]
\* the reply of janus_request_check_secret
Unauthorized == [Error("UNAUTHORIZED") EXCEPT !.denied = TRUE]

\* JANUS_VALIDATE_JSON_OBJECT with incoming_request_parameters (lines 85-89,
\* 778-780): "transaction" and "janus" are required strings ("id", if
\* carried, is an integer that is not negative in every request here)
ValidateTop(req) ==
    IF req.transaction = NoStr \/ req.janus = NoStr
    THEN "MISSING_MANDATORY_ELEMENT"
    ELSE IF req.transaction = NonStr \/ req.janus = NonStr
    THEN "INVALID_ELEMENT_TYPE"
    ELSE "none"

\* the first free session object (g_malloc of a janus_session)
FreeObjs == {o \in Objs : sess[o].st = "none"}
NewObj == CHOOSE o \in FreeObjs : \A p \in FreeObjs : o <= p

\* janus_session_create(session_id) and the rest of the create verb: the
\* session as it is when the handler returns (reference of the registry)
janus_session_create(session_id, instance) ==
    [NoSession EXCEPT !.st = "live", !.session_id = session_id,
                      !.source = instance, !.ref = 1]

\* the handle a request addresses is in the handle map of its session
AddressesHandle(req) ==
    /\ req.session_id \in SessionIds
    /\ sessions[req.session_id] # NULL
    /\ HandleNum(req) \in sess[sessions[req.session_id]].ice_handles

\* the id a create request asks for is the id of a session of the registry
IdTaken(req) == req.id \in SessionIds /\ janus_session_find(req.id) # NULL

\* the request thread takes a request (g_async_queue_pop, line 2515); a
\* message goes to a pool worker (line 2527): the worker is MessageBegin
\* when the message addresses an existing handle, and this thread otherwise.
\* The create requests taken here ask for no id or for one that is free;
\* one that asks for a taken id is taken by ReceiveConflict
Receive(req) ==
    /\ disp.pc = "idle"
    /\ req.janus = "create" =>
           /\ FreeObjs # {} /\ \E i \in SessionIds : sessions[i] = NULL
           /\ ~IdTaken(req)
    /\ (req.janus = "attach" /\ req.handle_id = ABSENT) =>
           next_handle < MaxHandles
    /\ req.janus = "message" => ~AddressesHandle(req)
    /\ (req.janus = "trickle" /\ AddressesHandle(req)) =>
           ntrickles < MaxTrickles
    /\ disp' = [pc |-> "begin", req |-> req, session |-> NULL]
    /\ last' = [NoLast EXCEPT !.destroyed =
                    IF req.janus = "destroy"
                       /\ req.session_id = last.destroyed
                    THEN last.destroyed ELSE 0]
    /\ UNCHANGED <<session_timeout, authVars, runVars, sess, sessions, sessions_mutex,
                   handles, next_handle, wd, tr, plugin_destroyed,
                   sigVars>>
    /\ tcalls' = <<>>

\* the create verb on an id that is taken: janus_session_find adds a
\* reference (line 815), line 817 drops one, and jsondone drops one more,
\* as session is not NULL (lines 1420-1421)
ConflictRelease(s) ==
    janus_refcount_decrease(
        janus_refcount_decrease(janus_refcount_increase(s)))

\* the request thread takes a create request that asks for the id of a
\* session of the registry
ReceiveConflict(req) ==
    /\ disp.pc = "idle"
    /\ req.janus = "create"
    /\ req.session_id = 0
    /\ IdTaken(req)
    /\ disp' = [pc |-> "begin", req |-> req, session |-> NULL]
    /\ last' = NoLast
    /\ UNCHANGED <<session_timeout, authVars, runVars, sess, sessions, sessions_mutex,
                   handles, next_handle, wd, tr, plugin_destroyed,
                   sigVars>>
    /\ tcalls' = <<>>

\* a reply sent before any session is looked up
ReplyNow(l) ==
    /\ last' = l
    /\ disp' = IdleDisp
    /\ UNCHANGED <<sess, sessions>>

\* janus_process_incoming_request, from its start to janus_session_find
\* (a session of the table that has been freed is a dangling pointer: what
\* the handler does with it is undefined, and is no step);
\* the handler stops after janus_request_check_secret when the value it
\* returns is not 0 (lines 807-809, 867-869), and goes on otherwise: a reply
\* that comes after the UNAUTHORIZED one is the second reply to the request
ProcessRequest ==
    /\ disp.pc = "begin"
    /\ UNCHANGED <<session_timeout, authVars, runVars, sessions_mutex, handles,
                   next_handle, wd, tr, plugin_destroyed, sigVars>>
    /\ tcalls' = <<>>
    /\ \E sent \in SendResults :
       LET req == disp.req
           ret == janus_request_check_secret(req.apisecret, req.token, sent)
           denied == ~Authorized(req.apisecret, req.token)
           Then(l) == IF denied
                      THEN [l EXCEPT !.sent = @ + 1, !.denied = TRUE]
                      ELSE l
       IN
       IF ValidateTop(req) # "none"
       THEN ReplyNow(TopLevelError(ValidateTop(req)))
       ELSE
       IF req.session_id = 0 /\ HandleNum(req) = 0
       THEN IF req.janus = "info" THEN ReplyNow(Success("server_info"))
            ELSE IF req.janus = "ping" THEN ReplyNow(Success("pong"))
            ELSE IF req.janus # "create"
            THEN ReplyNow(Error("INVALID_REQUEST_PATH"))
            ELSE IF ret # 0
            THEN ReplyNow(Unauthorized)
            ELSE /\ sessions_mutex = "free"
                 /\ IF req.id # ABSENT /\ req.id > 0
                       /\ janus_session_find(req.id) # NULL
                    THEN /\ sess[janus_session_find(req.id)].st = "live"
                         /\ last' = Then(Error("SESSION_CONFLICT"))
                         /\ disp' = IdleDisp
                         /\ sess' = [sess EXCEPT
                                ![janus_session_find(req.id)] =
                                    ConflictRelease(@)]
                         /\ UNCHANGED sessions
                    ELSE \E id \in SessionIds :
                           /\ IF req.id # ABSENT /\ req.id > 0
                              THEN id = req.id
                              ELSE janus_session_find(id) = NULL
                           /\ sess' = [sess EXCEPT ![NewObj] =
                                  janus_session_create(id, req.instance)]
                           /\ sessions' = [sessions EXCEPT ![id] = NewObj]
                           /\ last' = Then([Success("success") EXCEPT
                                               !.data = id])
                           /\ disp' = IdleDisp
       ELSE IF req.session_id < 1
            THEN ReplyNow(Error("SESSION_NOT_FOUND"))
            ELSE IF req.handle_id # ABSENT /\ HandleNum(req) < 1
            THEN ReplyNow(Error("SESSION_NOT_FOUND"))
            ELSE IF ret # 0
            THEN ReplyNow(Unauthorized)
            ELSE /\ sessions_mutex = "free"
                 /\ LET o == janus_session_find(req.session_id) IN
                    IF o = NULL
                    THEN ReplyNow(Then(Error("SESSION_NOT_FOUND")))
                    ELSE /\ sess[o].st = "live"
                         /\ sess' = [sess EXCEPT ![o] =
                                        janus_refcount_increase(@)]
                         /\ disp' = [disp EXCEPT !.pc = "found",
                                                 !.session = o]
                         /\ last' = IF denied THEN Unauthorized ELSE last
                         /\ UNCHANGED sessions

\* the checks of the verb against the addressing (lines 898, 958, 981, 1002,
\* 1017, 1321 and the final else at 1414); handle is NULL when the request
\* addresses no handle
VerbErrorNoScope(janus, handle) ==
    IF janus \in {"keepalive", "attach", "destroy"} THEN "none"
    ELSE IF janus \in {"detach", "hangup", "message", "trickle"}
    THEN IF handle = NULL THEN "INVALID_REQUEST_PATH" ELSE "none"
    ELSE "UNKNOWN_REQUEST"
VerbError(janus, handle) ==
    IF janus = "keepalive" THEN "none"
    ELSE IF janus \in {"attach", "destroy"}
    THEN IF handle # NULL THEN "INVALID_REQUEST_PATH" ELSE "none"
    ELSE IF janus \in {"detach", "hangup", "message", "trickle"}
    THEN IF handle = NULL THEN "INVALID_REQUEST_PATH" ELSE "none"
    ELSE "UNKNOWN_REQUEST"

\* the checks of attach before the handle is created (lines 903-928)
AttachError(req) ==
    IF ~json_is_string(req.plugin) THEN "MISSING_MANDATORY_ELEMENT"
    ELSE IF req.plugin \notin LoadedPlugins THEN "PLUGIN_NOT_FOUND"
    ELSE IF /\ auth_enabled
            /\ json_is_string(req.token)
            /\ ~janus_auth_check_plugin(req.token, req.plugin)
    THEN "UNAUTHORIZED_PLUGIN"
    ELSE "none"

\* janus_session_handles_find
janus_session_handles_find(s, handle_id) ==
    IF handle_id \in s.ice_handles THEN handle_id ELSE NULL

\* janus_ice_handle_create and janus_session_handles_insert
janus_session_handles_insert(s, h) == [s EXCEPT !.ice_handles = @ \cup {h}]

\* janus_ice_webrtc_hangup: the media session of the handle, if it has one,
\* starts to be cleaned up
janus_ice_webrtc_hangup(hd) ==
    IF hd.agent THEN [hd EXCEPT !.flags = @ \cup {"CLEANING"}] ELSE hd

\* janus_session_handles_remove, on the session's side
HandleLeftInMap(s, h) == s
janus_session_handles_remove(s, h) == [s EXCEPT !.ice_handles = @ \ {h}]

\* ------------------------------------------------------------- trickles
\* janus_ice_trickle_new: the n-th trickle request with its candidate(s)
janus_ice_trickle_new(n, req) ==
    [id |-> n,
     kind |-> IF req.candidate # "absent" THEN req.candidate
              ELSE req.candidates,
     len |-> req.len, age |-> 0]

\* g_list_append(handle->pending_trickles, early_trickle)
EnqueueDropped(pending, trickle) == pending
Enqueue(pending, trickle) == Append(pending, trickle)

\* janus_ice_trickle_parse for each element of an array, in index order; a
\* call is logged as <<trickle, index, call site>>, index 0 for "candidate"
ParseArray(id, len, site) == [i \in 1..len |-> <<id, i, site>>]

\* the candidates of a queued trickle that the drain gives to ICE (lines
\* 716-740)
ParseQueued(trickle) ==
    IF trickle.kind = "object" THEN << <<trickle.id, 0, "drain">> >>
    ELSE IF trickle.kind = "array"
    THEN ParseArray(trickle.id, trickle.len, "drain")
    ELSE <<>>

\* the test of line 710 on the age of a queued trickle
NeverTooOld(trickle) == FALSE
TooOld(trickle) == trickle.age > TrickleMaxAge

\* the loop of janus_request_ice_handle_answer over pending_trickles (lines
\* 703-743): what janus_ice_trickle_parse has been called with at its end
DrainNothing(pending, parsed) == parsed
RECURSIVE DrainTrickles(_, _)
DrainTrickles(pending, parsed) ==
    IF pending = <<>> THEN parsed
    ELSE LET trickle == Head(pending)
             rest == Tail(pending)
         IN  IF TooOld(trickle) THEN DrainTrickles(rest, parsed)
             ELSE DrainTrickles(rest, parsed \o ParseQueued(trickle))

\* janus_request_ice_handle_answer, on the handle
janus_request_ice_handle_answer(hd) ==
    [hd EXCEPT !.pending_trickles = <<>>,
               !.flags = IF "TRICKLE" \in @ /\ "ALL_TRICKLES" \notin @
                         THEN (@ \ {"PROCESSING_OFFER"}) \cup {"START"}
                         ELSE @ \ {"PROCESSING_OFFER"}]

\* the test of the fields of a trickle (lines 1330-1339): the error of the
\* reply, "none" when the request carries one of the two
BothAccepted(req) ==
    IF req.candidate = "absent" /\ req.candidates = "absent"
    THEN "MISSING_MANDATORY_ELEMENT" ELSE "none"
TrickleFields(req) ==
    IF req.candidate = "absent" /\ req.candidates = "absent"
    THEN "MISSING_MANDATORY_ELEMENT"
    ELSE IF req.candidate # "absent" /\ req.candidates # "absent"
    THEN "INVALID_JSON"
    ELSE "none"

\* the trickle verb from line 1330 on: the error of the reply ("none" for
\* an ack), the handle and the log of janus_ice_trickle_parse afterwards; n
\* numbers the request, error tells whether janus_ice_trickle_parse fails
TrickleVerb(req, hd, parsed, n, error) ==
    LET trickle == [hd EXCEPT !.flags = @ \cup {"TRICKLE"}]
        queued == [trickle EXCEPT !.pending_trickles =
                       Enqueue(@, janus_ice_trickle_new(n, req))]
    IN
    IF TrickleFields(req) # "none"
    THEN [error |-> TrickleFields(req), handle |-> hd, parsed |-> parsed]
    ELSE IF "CLEANING" \in hd.flags
    THEN [error |-> "WEBRTC_STATE", handle |-> hd, parsed |-> parsed]
    ELSE IF ~hd.stream
    THEN [error |-> "none", handle |-> queued, parsed |-> parsed]
    ELSE IF \/ "PROCESSING_OFFER" \in hd.flags
            \/ "GOT_OFFER" \notin hd.flags
            \/ "GOT_ANSWER" \notin hd.flags
    THEN [error |-> "none", handle |-> queued, parsed |-> parsed]
    ELSE IF req.candidate # "absent"
    THEN [error |-> IF error THEN "TRICKLE_PARSE" ELSE "none",
          handle |-> trickle,
          parsed |-> Append(parsed, <<n, 0, "direct">>)]
    ELSE IF req.candidates # "array"
    THEN [error |-> "INVALID_ELEMENT_TYPE", handle |-> trickle,
          parsed |-> parsed]
    ELSE [error |-> "none", handle |-> trickle,
          parsed |-> parsed \o ParseArray(n, req.len, "direct")]

\* the label jsondone: the references of the request are dropped
JsonDone(l, s, H, nh, pd) ==
    /\ last' = l
    /\ sess' = [sess EXCEPT ![disp.session] = janus_refcount_decrease(s)]
    /\ handles' = H
    /\ next_handle' = nh
    /\ plugin_destroyed' = pd
    /\ disp' = IdleDisp
    /\ UNCHANGED <<sessions, sessions_mutex, ice_parsed, ntrickles>>

\* the label trickledone, and jsondone for a trickle that has candidates
TrickleDone(s, t) ==
    /\ last' = IF t.error = "none" THEN Success("ack") ELSE Error(t.error)
    /\ sess' = [sess EXCEPT ![disp.session] = janus_refcount_decrease(s)]
    /\ handles' = [handles EXCEPT ![HandleNum(disp.req)] = t.handle]
    /\ ice_parsed' = [ice_parsed EXCEPT ![HandleNum(disp.req)] = t.parsed]
    /\ ntrickles' = ntrickles + 1
    /\ disp' = IdleDisp
    /\ UNCHANGED <<sessions, sessions_mutex, next_handle, plugin_destroyed>>

\* the update of the last activity timer (line 879): no time has passed
\* since the last activity of the session
ActivityKept(s) == s
UpdateActivity(s) == [s EXCEPT !.idle = 0]

\* janus_process_incoming_request, from the update of last_activity on
ProcessVerb ==
    /\ disp.pc = "found"
    /\ UNCHANGED <<session_timeout, authVars, runVars, wd, tr, wk, pl>>
    /\ tcalls' = <<>>
    /\ LET o == disp.session
           req == disp.req
           s == UpdateActivity(sess[o])
           hid == HandleNum(req)
           handle == IF hid > 0 THEN janus_session_handles_find(s, hid)
                     ELSE NULL
           nh == next_handle + 1
       IN
       IF hid > 0 /\ handle = NULL
       THEN JsonDone(Error("HANDLE_NOT_FOUND"), s, handles,
                     next_handle, plugin_destroyed)
       ELSE IF VerbError(req.janus, handle) # "none"
       THEN JsonDone(Error(VerbError(req.janus, handle)), s, handles,
                     next_handle, plugin_destroyed)
       ELSE IF req.janus = "keepalive"
       THEN JsonDone(Success("ack"), s, handles, next_handle,
                     plugin_destroyed)
       ELSE IF req.janus = "attach"
       THEN IF AttachError(req) # "none"
            THEN JsonDone(Error(AttachError(req)), s, handles,
                          next_handle, plugin_destroyed)
            ELSE \E error \in BOOLEAN :
                 LET created == [NoHandle EXCEPT !.st = "live",
                                                 !.session = o]
                     H1 == [handles EXCEPT ![nh] = created]
                     s1 == janus_session_handles_insert(s, nh)
                 IN  IF error
                     THEN JsonDone(Error("PLUGIN_ATTACH"),
                                   janus_session_handles_remove(s1, nh),
                                   janus_ice_handle_destroy(H1, {nh}),
                                   nh, plugin_destroyed)
                     ELSE JsonDone(Success("success"), s1,
                                   [H1 EXCEPT ![nh].app = req.plugin],
                                   nh, plugin_destroyed)
       ELSE IF req.janus = "destroy"
       THEN /\ sessions_mutex = "free"
            /\ sessions' = HashRemove(sessions, s.session_id)
            /\ sess' = [sess EXCEPT ![o] = s]
            /\ disp' = [disp EXCEPT !.pc = "destroy"]
            /\ UNCHANGED <<sessions_mutex, handles, next_handle,
                           plugin_destroyed, last, ice_parsed, ntrickles>>
       ELSE IF handles[handle].app = NoStr
       THEN JsonDone(Error(IF req.janus \in {"detach", "hangup"}
                           THEN "PLUGIN_DETACH" ELSE "PLUGIN_MESSAGE"),
                     s, handles, next_handle, plugin_destroyed)
       ELSE IF req.janus = "detach"
       THEN JsonDone(Success("success"),
                     janus_session_handles_remove(s, handle),
                     janus_ice_handle_destroy(handles, {handle}),
                     next_handle, plugin_destroyed \cup {handle})
       ELSE IF req.janus = "hangup"
       THEN JsonDone(Success("success"), s,
                     [handles EXCEPT ![handle] = janus_ice_webrtc_hangup(@)],
                     next_handle, plugin_destroyed)
       ELSE \* trickle
            \E error \in BOOLEAN :
                TrickleDone(s, TrickleVerb(req, handles[handle],
                                           ice_parsed[handle],
                                           ntrickles + 1, error))

\* the attach verb when janus_ice_handle_create gives no handle (lines
\* 931-937): the error UNKNOWN is sent and session->mutex is unlocked, which
\* this thread never locked. What the unlock of a mutex that is not locked
\* does is not defined: the process is aborted, or it goes on to jsondone
AttachCreateFails ==
    /\ disp.pc = "found"
    /\ disp.req.janus = "attach"
    /\ HandleNum(disp.req) = 0
    /\ AttachError(disp.req) = "none"
    /\ UNCHANGED <<session_timeout, authVars, requests, main, wd, tr, wk, pl>>
    /\ tcalls' = <<>>
    /\ unheld' = unheld \cup {<<"session", disp.session>>}
    /\ LET o == disp.session
           s == UpdateActivity(sess[o])
       IN  \E aborted \in BOOLEAN :
               IF aborted
               THEN /\ last' = Error("UNKNOWN")
                    /\ sess' = [sess EXCEPT ![o] = s]
                    /\ disp' = [disp EXCEPT !.pc = "aborted"]
                    /\ UNCHANGED <<sessions, sessions_mutex, handles,
                                   next_handle, plugin_destroyed, ice_parsed,
                                   ntrickles>>
               ELSE JsonDone(Error("UNKNOWN"), s, handles, next_handle,
                             plugin_destroyed)

\* the end of the destroy verb (lines 966-979): the transport is told the
\* session is over, the session is destroyed, the reply is sent
ProcessDestroy ==
    /\ disp.pc = "destroy"
    /\ UNCHANGED <<session_timeout, authVars, runVars, sessions, sessions_mutex,
                   next_handle, wd, tr, sigVars>>
    /\ LET o == disp.session
           s == sess[o]
           hs == IF s.destroyed = 0 THEN s.ice_handles ELSE {}
       IN
       /\ tcalls' = IF s.source # NULL THEN <<SessionOver(s, FALSE)>>
                    ELSE <<>>
       /\ sess' = [sess EXCEPT ![o] =
                      janus_refcount_decrease(
                          janus_session_destroy(Notified(s, FALSE)))]
       /\ handles' = janus_ice_handle_destroy(handles, hs)
       /\ plugin_destroyed' = plugin_destroyed \cup Attached(hs)
       /\ last' = Success("success")
       /\ disp' = IdleDisp

\* the request thread takes a message and g_thread_pool_push fails (lines
\* 2524-2533): the reply is the error UNKNOWN, sent by this thread; its
\* transaction is looked up in the string value of "janus", where
\* json_object_get finds nothing
PoolError(req) ==
    /\ disp.pc = "idle"
    /\ req.janus = "message"
    /\ last' = [NoLast EXCEPT !.janus = "message", !.reply = "error",
                              !.error = "UNKNOWN", !.sent = 1,
                              !.carried = req.transaction,
                              !.transaction = NoStr]
    /\ UNCHANGED <<session_timeout, authVars, runVars, sess, sessions, sessions_mutex,
                   handles, next_handle, disp, wd, tr, plugin_destroyed,
                   sigVars>>
    /\ tcalls' = <<>>

\* the admin verb set_session_timeout (lines 1629-1652)
AdminSetSessionTimeout(timeout_num) ==
    /\ disp.pc = "idle"
    /\ session_timeout' = IF timeout_num < 0 THEN session_timeout
                          ELSE timeout_num
    /\ last' = [NoLast EXCEPT
                    !.janus = "set_session_timeout", !.sent = 1,
                    !.carried = "t1", !.transaction = "t1",
                    !.reply = IF timeout_num < 0 THEN "error" ELSE "success",
                    !.error = IF timeout_num < 0 THEN "INVALID_ELEMENT_TYPE"
                              ELSE "none"]
    /\ UNCHANGED <<authVars, runVars, sess, sessions, sessions_mutex, handles,
                   next_handle, disp, wd, tr, plugin_destroyed,
                   sigVars>>
    /\ tcalls' = <<>>

\* the "sessions" array of the reply to list_sessions (lines 1847-1861):
\* the session_id of every session of the table
ListNone(T) == {}
ListSessions(T) ==
    {sess[T[i]].session_id : i \in {j \in SessionIds : T[j] # NULL}}

\* the admin verb list_sessions (lines 1844-1867)
AdminListSessions ==
    /\ disp.pc = "idle"
    /\ InTable # {} => sessions_mutex = "free"
    /\ \A o \in InTable : sess[o].st = "live"
    /\ last' = [NoLast EXCEPT
                    !.janus = "list_sessions", !.sent = 1,
                    !.carried = "t1", !.transaction = "t1",
                    !.reply = "success", !.list = ListSessions(sessions)]
    /\ UNCHANGED <<session_timeout, authVars, runVars, sess, sessions, sessions_mutex,
                   handles, next_handle, disp, wd, tr, plugin_destroyed,
                   sigVars>>
    /\ tcalls' = <<>>

\* the set_* verbs of the admin API but set_session_timeout, each with the
\* setting it changes (lines 1653-1809)
SettingVerbs ==
    {"set_log_level", "set_locking_debug", "set_refcount_debug",
     "set_log_timestamps", "set_log_colors", "set_libnice_debug",
     "set_max_nack_queue", "set_no_media_timer"}

\* the test of the admin secret (lines 1603-1610 and 1959-1966)
AdminOpen(secret) == TRUE
AdminAuthorized(secret) ==
    \/ admin_api_secret = NoStr
    \/ /\ json_is_string(secret)
       /\ janus_strcmp_const_time(secret, admin_api_secret)

\* what janus_process_incoming_admin_request does with a request whose
\* "janus" and "transaction" are strings: the error of the reply ("none"
\* for a success) and the settings, tokens and handles it leaves; created
\* tells whether janus_text2pcap_create succeeds.  value is the integer or
\* boolean the verb sets (ABSENT when the request has none), plugins the
\* names of the "plugins" array
AdminOutcome(req, created) ==
    LET keep == [error |-> "none", timeout |-> session_timeout,
                 settings |-> settings, tokens |-> tokens,
                 allowed |-> allowed, handles |-> handles]
        Err(e) == [keep EXCEPT !.error = e]
        o == janus_session_find(req.session_id)
        hid == HandleNum(req)
        handle == IF hid > 0 THEN janus_session_handles_find(sess[o], hid)
                  ELSE NULL
        pairs == {<<req.token, p>> : p \in req.plugins}
    IN
    IF req.session_id = 0 /\ hid = 0
    THEN IF req.janus = "info" THEN keep
         ELSE IF ~AdminAuthorized(req.admin_secret) THEN Err("UNAUTHORIZED")
         ELSE IF req.janus \in {"get_status", "list_sessions"} THEN keep
         ELSE IF req.janus = "set_session_timeout"
         THEN IF req.value = ABSENT THEN Err("MISSING_MANDATORY_ELEMENT")
              ELSE [keep EXCEPT !.timeout = req.value]
         ELSE IF req.janus \in SettingVerbs
         THEN IF req.value = ABSENT THEN Err("MISSING_MANDATORY_ELEMENT")
              ELSE [keep EXCEPT !.settings[req.janus] = req.value]
         ELSE IF req.janus \in {"add_token", "allow_token", "disallow_token"}
         THEN IF ~auth_enabled THEN Err("UNKNOWN")
              ELSE IF req.token = NoStr THEN Err("MISSING_MANDATORY_ELEMENT")
              ELSE IF req.janus # "add_token" /\ req.plugins = {}
              THEN Err("INVALID_ELEMENT_TYPE")
              ELSE IF req.janus # "add_token"
                      /\ ~janus_auth_check_token(req.token)
              THEN Err("TOKEN_NOT_FOUND")
              ELSE IF req.janus # "add_token"
                      /\ ~(req.plugins \subseteq LoadedPlugins)
              THEN Err("INVALID_ELEMENT_TYPE")
              ELSE IF req.janus = "disallow_token"
              THEN [keep EXCEPT !.allowed = @ \ pairs]
              ELSE [keep EXCEPT
                      !.tokens = @ \cup {req.token},
                      !.allowed = @ \cup
                          IF req.plugins = {}
                          THEN {<<req.token, p>> : p \in LoadedPlugins}
                          ELSE {<<req.token, p>> :
                                   p \in req.plugins \cap LoadedPlugins}]
         ELSE IF req.janus = "remove_token"
         THEN IF ~auth_enabled THEN Err("UNKNOWN")
              ELSE IF req.token = NoStr THEN Err("MISSING_MANDATORY_ELEMENT")
              ELSE IF ~janus_auth_check_token(req.token) THEN Err("UNKNOWN")
              ELSE [keep EXCEPT
                      !.tokens = @ \ {req.token},
                      !.allowed = {a \in @ : a[1] # req.token}]
         ELSE Err("INVALID_REQUEST_PATH")
    ELSE IF req.session_id < 1 THEN Err("SESSION_NOT_FOUND")
    ELSE IF req.handle_id # ABSENT /\ hid < 1 THEN Err("SESSION_NOT_FOUND")
    ELSE IF ~AdminAuthorized(req.admin_secret) THEN Err("UNAUTHORIZED")
    ELSE IF o = NULL THEN Err("SESSION_NOT_FOUND")
    ELSE IF hid > 0 /\ handle = NULL THEN Err("HANDLE_NOT_FOUND")
    ELSE IF handle = NULL
    THEN IF req.janus = "list_handles" THEN keep
         ELSE Err("INVALID_REQUEST_PATH")
    ELSE IF req.janus = "start_text2pcap"
    THEN IF req.value = ABSENT THEN Err("MISSING_MANDATORY_ELEMENT")
         ELSE IF handles[handle].text2pcap \/ ~created THEN Err("UNKNOWN")
         ELSE [keep EXCEPT !.handles[handle].text2pcap = TRUE]
    ELSE IF req.janus = "stop_text2pcap"
    THEN IF ~handles[handle].text2pcap THEN Err("UNKNOWN")
         ELSE [keep EXCEPT !.handles[handle].text2pcap = FALSE]
    ELSE IF req.janus = "handle_info" THEN keep
    ELSE Err("INVALID_REQUEST_PATH")

\* janus_process_incoming_admin_request for the request req
AdminRequest(req) ==
    /\ disp.pc = "idle"
    /\ sessions_mutex = "free"
    /\ \A o \in InTable : sess[o].st = "live"
    /\ \E created \in IF req.janus = "start_text2pcap" THEN BOOLEAN
                       ELSE {TRUE} :
           LET out == AdminOutcome(req, created) IN
           /\ session_timeout' = out.timeout
           /\ settings' = out.settings
           /\ tokens' = out.tokens
           /\ allowed' = out.allowed
           /\ handles' = out.handles
           /\ last' = [NoLast EXCEPT
                          !.janus = req.janus, !.sent = 1,
                          !.carried = "t1", !.transaction = "t1",
                          !.reply = IF out.error = "none" THEN "success"
                                    ELSE "error",
                          !.error = out.error]
    /\ UNCHANGED <<admin_api_secret, api_secret, auth_enabled, runVars,
                   sess, sessions, sessions_mutex, next_handle, disp, wd,
                   tr, plugin_destroyed, sigVars>>
    /\ tcalls' = <<>>

\* ------------------------------------------------------------ the sweeper
\* the test of janus_check_sessions on one session (lines 460-461): the
\* session is expired when it has been idle for the timeout and the
\* compare-and-exchange of its timeout flag from 0 to 1 does NOT take place
CheckExpired(s) ==
    /\ s.idle >= session_timeout
    /\ ~(s.timeout = 0)

\* the session after the test: g_atomic_int_compare_and_exchange is only
\* evaluated when the first operand of && holds
CompareOnly(s) == s
AfterCheck(s) ==
    IF s.idle >= session_timeout THEN [s EXCEPT !.timeout = 1] ELSE s

\* g_hash_table_iter_remove: the entry of object o leaves the table
IterRemoveSkipped(T, o) == T

IterRemove(T, o) == [i \in SessionIds |-> IF T[i] = o THEN NULL ELSE T[i]]

\* janus_check_sessions: the test of session_timeout and the lock
SweepBegin ==
    /\ wd.pc = "idle"
    /\ IF session_timeout < 1
       THEN UNCHANGED <<sessions_mutex, wd>>
       ELSE /\ sessions_mutex = "free"
            /\ sessions_mutex' = "wd"
            /\ wd' = [pc |-> "loop", todo |-> InTable]
    /\ UNCHANGED <<session_timeout, authVars, runVars, sess, sessions, handles,
                   next_handle, disp, tr, last, plugin_destroyed,
                   sigVars>>
    /\ tcalls' = <<>>

\* janus_check_sessions: one round of the loop over the table
SweepSession(o) ==
    /\ wd.pc = "loop"
    /\ o \in wd.todo
    /\ wd' = [wd EXCEPT !.todo = @ \ {o}]
    /\ UNCHANGED <<session_timeout, authVars, runVars, sessions_mutex, next_handle,
                   disp, tr, last, sigVars>>
    /\ LET s == sess[o] IN
       IF s.destroyed # 0
       THEN /\ tcalls' = <<>>
            /\ UNCHANGED <<sess, sessions, handles, plugin_destroyed>>
       ELSE IF ~CheckExpired(s)
       THEN /\ sess' = [sess EXCEPT ![o] = AfterCheck(s)]
            /\ tcalls' = <<>>
            /\ UNCHANGED <<sessions, handles, plugin_destroyed>>
       ELSE /\ tcalls' = IF s.source # NULL
                         THEN <<SendTimeout(s), SessionOver(s, TRUE)>>
                         ELSE <<>>
            /\ sessions' = IterRemove(sessions, o)
            /\ sess' = [sess EXCEPT ![o] =
                   janus_session_destroy(
                       Notified(janus_session_handles_clear(AfterCheck(s)),
                                TRUE))]
            /\ handles' = janus_ice_handle_destroy(handles, s.ice_handles)
            /\ plugin_destroyed' = plugin_destroyed \cup
                                       Attached(s.ice_handles)

\* janus_check_sessions: the unlock after the loop
SweepEnd ==
    /\ wd.pc = "loop"
    /\ wd.todo = {}
    /\ wd' = IdleWd
    /\ sessions_mutex' = "free"
    /\ UNCHANGED <<session_timeout, authVars, runVars, sess, sessions, handles,
                   next_handle, disp, tr, last, plugin_destroyed,
                   sigVars>>
    /\ tcalls' = <<>>

\* -------------------------------------------------- janus_transport_gone
\* the sessions janus_transport_gone leaves alone (line 2447); last_activity
\* is a monotonic time and never 0
GoneSkips(s) == s.destroyed # 0 \/ s.timeout # 0

GoneBegin(transport) ==
    /\ tr.pc = "idle"
    /\ sessions_mutex = "free"
    /\ sessions_mutex' = "tr"
    /\ tr' = [pc |-> "loop", instance |-> transport, todo |-> InTable,
              cur |-> NULL,
              mine |-> {o \in InTable : sess[o].source = transport},
              had |-> UNION {sess[o].ice_handles :
                         o \in {p \in InTable : sess[p].source = transport}}]
    /\ UNCHANGED <<session_timeout, authVars, runVars, sess, sessions, handles,
                   next_handle, disp, wd, last, plugin_destroyed,
                   sigVars>>
    /\ tcalls' = <<>>

\* one round of the loop, up to janus_session_destroy
GoneSession(o) ==
    /\ tr.pc = "loop"
    /\ o \in tr.todo
    /\ UNCHANGED <<session_timeout, authVars, runVars, sessions, sessions_mutex,
                   next_handle, disp, wd, last, sigVars>>
    /\ tcalls' = <<>>
    /\ LET s == sess[o] IN
       IF GoneSkips(s) \/ s.source # tr.instance
       THEN /\ tr' = [tr EXCEPT !.todo = @ \ {o}]
            /\ UNCHANGED <<sess, handles, plugin_destroyed>>
       ELSE /\ tr' = [tr EXCEPT !.todo = @ \ {o}, !.pc = "remove",
                                !.cur = o]
            /\ sess' = [sess EXCEPT ![o] = janus_session_destroy(s)]
            /\ handles' = janus_ice_handle_destroy(handles, s.ice_handles)
            /\ plugin_destroyed' = plugin_destroyed \cup
                                       Attached(s.ice_handles)

\* the g_hash_table_iter_remove that follows janus_session_destroy
GoneRemove ==
    /\ tr.pc = "remove"
    /\ sessions' = IterRemove(sessions, tr.cur)
    /\ tr' = [tr EXCEPT !.pc = "loop", !.cur = NULL]
    /\ UNCHANGED <<session_timeout, authVars, runVars, sess, sessions_mutex, handles,
                   next_handle, disp, wd, last, plugin_destroyed,
                   sigVars>>
    /\ tcalls' = <<>>

GoneEnd ==
    /\ tr.pc = "loop"
    /\ tr.todo = {}
    /\ tr' = IdleTr
    /\ sessions_mutex' = "free"
    /\ UNCHANGED <<session_timeout, authVars, runVars, sess, sessions, handles,
                   next_handle, disp, wd, last, plugin_destroyed,
                   sigVars>>
    /\ tcalls' = <<>>

\* -------------------------------------------------- signalling (JSEP)
\* a handle a message or a plugin event can be about: in the handle map of
\* a session of the registry, with its plugin attached
Reachable(h) ==
    /\ handles[h].st = "live"
    /\ handles[h].app # NoStr
    /\ handles[h].session \in InTable
    /\ h \in sess[handles[h].session].ice_handles

\* a pool worker takes a message with a jsep of the given type ("none" for
\* a message that has no jsep: it goes on to the plugin at once), whose sdp
\* janus_sdp_preparse can parse ("valid") or not ("unparsable"), for handle h
\* (janus_transport_task) and handles it up to the test of CLEANING (lines
\* 756-1064): the session is looked up, last_activity is set; it goes on to
\* the lock of the handle, or into the wait loop when CLEANING is set
MessageBegin(h, type, sdp) ==
    /\ wk.pc = "idle"
    /\ Reachable(h)
    /\ sessions_mutex = "free"
    /\ wk' = [IdleWk EXCEPT !.pc = IF type = "none" THEN "forward"
                                  ELSE IF "CLEANING" \in handles[h].flags
                                  THEN "wait" ELSE "jsep",
                            !.handle = h, !.type = type, !.sdp = sdp]
    /\ sess' = [sess EXCEPT ![handles[h].session] =
                   [janus_refcount_increase(@) EXCEPT !.idle = 0]]
    /\ UNCHANGED <<session_timeout, authVars, runVars, sessions, sessions_mutex,
                   handles, next_handle, disp, wd, tr, last,
                   plugin_destroyed, ice_parsed, ntrickles, pl>>
    /\ tcalls' = <<>>

\* the same in two steps, as the threads may interleave: last_activity is
\* written with no lock held (line 879), the value is the time the worker
\* read before.  MessageFind is the worker up to the call of
\* janus_get_monotonic_time, MessageStamp the store and what follows it
MessageFind(h, type, sdp) ==
    /\ wk.pc = "idle"
    /\ Reachable(h)
    /\ sessions_mutex = "free"
    /\ wk' = [IdleWk EXCEPT !.pc = "stamp", !.handle = h, !.type = type,
                            !.sdp = sdp]
    /\ sess' = [sess EXCEPT ![handles[h].session] =
                   janus_refcount_increase(@)]
    /\ UNCHANGED <<session_timeout, authVars, runVars, sessions, sessions_mutex,
                   handles, next_handle, disp, wd, tr, last,
                   plugin_destroyed, ice_parsed, ntrickles, pl>>
    /\ tcalls' = <<>>

MessageStamp ==
    /\ wk.pc = "stamp"
    /\ wk' = [wk EXCEPT !.pc = IF "CLEANING" \in handles[wk.handle].flags
                               THEN "wait" ELSE "jsep",
                        !.stamp = 0]
    /\ sess' = [sess EXCEPT ![handles[wk.handle].session].idle = wk.stamp]
    /\ UNCHANGED <<session_timeout, authVars, runVars, sessions, sessions_mutex,
                   handles, next_handle, disp, wd, tr, last,
                   plugin_destroyed, ice_parsed, ntrickles, pl>>
    /\ tcalls' = <<>>

\* the ICE code is done with the cleanup of the media session of handle h
\* (janus_ice_webrtc_free): CLEANING is cleared
IceWebrtcFree(h) ==
    /\ "CLEANING" \in handles[h].flags
    /\ handles' = [handles EXCEPT ![h].flags = @ \ {"CLEANING"}]
    /\ UNCHANGED <<session_timeout, authVars, runVars, sess, sessions, sessions_mutex,
                   next_handle, disp, wd, tr, last, plugin_destroyed,
                   sigVars>>
    /\ tcalls' = <<>>

\* the same, with an offer that leaves GOT_ANSWER as it is
OfferKeepsAnswer(type, flags) ==
    IF type = "offer" THEN flags \cup {"PROCESSING_OFFER", "GOT_OFFER"}
    ELSE IF type = "answer" THEN flags \cup {"GOT_ANSWER"}
    ELSE flags

\* the handle once the type of the jsep is known (lines 1077-1084)
JsepFlags(type, flags) ==
    IF type = "offer"
    THEN (flags \cup {"PROCESSING_OFFER", "GOT_OFFER"}) \ {"GOT_ANSWER"}
    ELSE IF type = "answer" THEN flags \cup {"GOT_ANSWER"}
    ELSE flags

\* what may fail while the handle is locked: janus_sdp_preparse,
\* janus_ice_setup_local, janus_sdp_process
JsepFailures == {"none", "preparse", "setup_local", "process"}

\* the error of the reply for a jsep of a type on handle record hd, "none"
\* when the message goes on to the plugin (lines 1077-1191)
AnswerTaken(type, hd, fail) ==
    IF type \notin {"offer", "answer"} THEN "JSEP_UNKNOWN_TYPE"
    ELSE IF fail = "preparse" THEN "JSEP_INVALID_SDP"
    ELSE IF "READY" \notin hd.flags \/ "ALERT" \in hd.flags
    THEN IF type = "offer" /\ fail = "setup_local" THEN "UNKNOWN"
         ELSE IF fail = "process" THEN "JSEP_INVALID_SDP"
         ELSE "none"
    ELSE IF fail = "process" THEN "UNEXPECTED_ANSWER"
    ELSE "none"
JsepError(type, hd, fail) ==
    IF type \notin {"offer", "answer"} THEN "JSEP_UNKNOWN_TYPE"
    ELSE IF fail = "preparse" THEN "JSEP_INVALID_SDP"
    ELSE IF "READY" \notin hd.flags \/ "ALERT" \in hd.flags
    THEN IF type = "offer" /\ fail = "setup_local" THEN "UNKNOWN"
         ELSE IF type = "answer" /\ ~hd.agent THEN "UNEXPECTED_ANSWER"
         ELSE IF fail = "process" THEN "JSEP_INVALID_SDP"
         ELSE "none"
    ELSE IF fail = "process" THEN "UNEXPECTED_ANSWER"
    ELSE "none"

\* janus_ice_setup_local: the handle has an agent and a stream afterwards
janus_ice_setup_local(hd) == [hd EXCEPT !.agent = TRUE, !.stream = TRUE]

\* the worker drops the references of the request (jsondone)
WorkerDone(reply, error) ==
    /\ wk' = [IdleWk EXCEPT !.reply = reply, !.error = error]
    /\ sess' = [sess EXCEPT ![handles[wk.handle].session] =
                   janus_refcount_decrease(@)]

\* the test of the time waited (line 1067)
NeverEnough(waited) == FALSE
WaitedEnough(waited) == waited >= CleaningPolls

\* one round of the wait loop (lines 1064-1072): a sleep of 100 ms, then
\* the test of the time waited, then the test of CLEANING again (waited is
\* a local that is not read after the loop: it is kept only in the loop)
MessagePoll ==
    /\ wk.pc = "wait"
    /\ LET waited == wk.waited + 1 IN
       IF WaitedEnough(waited)
       THEN WorkerDone("error", "WEBRTC_STATE")
       ELSE /\ wk' = IF "CLEANING" \in handles[wk.handle].flags
                     THEN [wk EXCEPT !.waited = waited]
                     ELSE [wk EXCEPT !.waited = 0, !.pc = "jsep"]
            /\ UNCHANGED sess
    /\ UNCHANGED <<session_timeout, authVars, runVars, sessions, sessions_mutex,
                   handles, next_handle, disp, wd, tr, last,
                   plugin_destroyed, ice_parsed, ntrickles, pl>>
    /\ tcalls' = <<>>

\* the jsep of a message, handled with the handle locked (lines 1075-1229)
MessageJsep ==
    /\ wk.pc = "jsep"
    /\ UNCHANGED <<session_timeout, authVars, runVars, sessions, sessions_mutex,
                   next_handle, disp, wd, tr, last, plugin_destroyed,
                   ntrickles, pl>>
    /\ tcalls' = <<>>
    /\ \E fail \in {f \in JsepFailures :
                       (f = "preparse") <=> (wk.sdp = "unparsable")} :
       LET h == wk.handle
           hd == [handles[h] EXCEPT !.flags = JsepFlags(wk.type, @)]
           error == JsepError(wk.type, hd, fail)
           new == "READY" \notin hd.flags \/ "ALERT" \in hd.flags
       IN
       IF error # "none"
       THEN /\ handles' = [handles EXCEPT ![h] =
                   [(IF new /\ wk.type = "offer" /\ fail = "process"
                     THEN janus_ice_setup_local(hd) ELSE hd)
                        EXCEPT !.flags = @ \ {"PROCESSING_OFFER"}]]
            /\ WorkerDone("error", error)
            /\ UNCHANGED ice_parsed
       ELSE IF new /\ wk.type = "offer"
       THEN /\ handles' = [handles EXCEPT ![h] = janus_ice_setup_local(hd)]
            /\ wk' = [wk EXCEPT !.pc = "forward"]
            /\ UNCHANGED <<sess, ice_parsed>>
       ELSE IF new
       THEN /\ handles' = [handles EXCEPT ![h] =
                   janus_request_ice_handle_answer(
                       [hd EXCEPT !.flags = @ \cup {"TRICKLE"}])]
            /\ ice_parsed' = [ice_parsed EXCEPT ![h] =
                   DrainTrickles(hd.pending_trickles, @)]
            /\ wk' = [wk EXCEPT !.pc = "forward"]
            /\ UNCHANGED sess
       ELSE /\ handles' = [handles EXCEPT ![h] = hd]
            /\ wk' = [wk EXCEPT !.pc = "forward"]
            /\ UNCHANGED <<sess, ice_parsed>>

\* a janus_plugin_result as handle_message returns it: no result at all
\* (type "NULL"), or a type with a content (no content, a JSON object,
\* another JSON value) and a text (NoStr when it has none)
PluginResults ==
    {[type |-> "NULL", content |-> "null", text |-> NoStr]} \cup
    [type : {"OK", "OK_WAIT", "ERROR"},
     content : {"null", "object", "other"},
     text : {NoStr, "text"}]

\* the results of a plugin that answers every message as it should
EchoResults ==
    {[type |-> "OK", content |-> "object", text |-> NoStr],
     [type |-> "OK_WAIT", content |-> "null", text |-> NoStr],
     [type |-> "ERROR", content |-> "null", text |-> NoStr]}

\* the reply for the result of the plugin (lines 1278-1318)
NullPassedOn(result) ==
    IF result.type \in {"NULL", "OK"}
    THEN [reply |-> "success", error |-> "none",
          plugindata |-> result.content, hint |-> NoStr]
    ELSE IF result.type = "OK_WAIT"
    THEN [reply |-> "ack", error |-> "none", plugindata |-> "none",
          hint |-> result.text]
    ELSE [reply |-> "error", error |-> "PLUGIN_MESSAGE",
          plugindata |-> "none", hint |-> NoStr]
ResultReply(result) ==
    IF result.type = "NULL"
    THEN [reply |-> "error", error |-> "PLUGIN_MESSAGE",
          plugindata |-> "none", hint |-> NoStr]
    ELSE IF result.type = "OK"
    THEN IF result.content = "null" \/ result.content # "object"
         THEN [reply |-> "error", error |-> "PLUGIN_MESSAGE",
               plugindata |-> "none", hint |-> NoStr]
         ELSE [reply |-> "success", error |-> "none",
               plugindata |-> result.content, hint |-> NoStr]
    ELSE IF result.type = "OK_WAIT"
    THEN [reply |-> "ack", error |-> "none", plugindata |-> "none",
          hint |-> result.text]
    ELSE [reply |-> "error", error |-> "PLUGIN_MESSAGE",
          plugindata |-> "none", hint |-> NoStr]

\* the worker sends the reply for the result of the plugin and drops the
\* references of the request
WorkerReplied(result) ==
    /\ wk' = [IdleWk EXCEPT !.reply = ResultReply(result).reply,
                            !.error = ResultReply(result).error,
                            !.plugindata = ResultReply(result).plugindata,
                            !.hint = ResultReply(result).hint,
                            !.result = result]
    /\ sess' = [sess EXCEPT ![handles[wk.handle].session] =
                   janus_refcount_decrease(@)]

\* the rest of the message (lines 1230-1319): the SDP of a jsep is
\* anonymized (anonymized tells whether janus_sdp_anonymize succeeds) and
\* PROCESSING_OFFER is cleared, the plugin of the handle gets the message
\* and its result, one of R, is mapped to the reply
MessageForward(R) ==
    /\ wk.pc = "forward"
    /\ \E anonymized \in BOOLEAN, result \in R :
           LET h == wk.handle
               jsep == wk.type # "none"
           IN  /\ handles' = [handles EXCEPT ![h].flags =
                                  IF jsep THEN @ \ {"PROCESSING_OFFER"}
                                  ELSE @]
               /\ IF jsep /\ ~anonymized
                  THEN WorkerDone("error", "JSEP_INVALID_SDP")
                  ELSE IF handles[h].app = NoStr
                  THEN WorkerDone("error", "PLUGIN_MESSAGE")
                  ELSE WorkerReplied(result)
    /\ UNCHANGED <<session_timeout, authVars, runVars, sessions, sessions_mutex,
                   next_handle, disp, wd, tr, last, plugin_destroyed,
                   ice_parsed, ntrickles, pl>>
    /\ tcalls' = <<>>

\* janus_plugin_handle_sdp up to the merge of the SDP (lines 2674-2836),
\* called by janus_plugin_push_event for an event with a jsep: the flags
\* are set, an offer sets up ICE when there is no agent; fail tells that
\* the function returns NULL on the way (SDP that does not parse, ICE setup
\* or gathering that fails, SDP that cannot be merged).  An answer for a
\* handle that has no stream dereferences NULL at line 2763 and ends the
\* process: it is no step
PluginSdp(h, type, fail) ==
    /\ pl.pc = "idle"
    /\ Reachable(h)
    /\ type = "answer" => handles[h].stream
    /\ LET hd == [handles[h] EXCEPT !.flags =
                     IF type = "offer"
                     THEN (@ \cup {"GOT_OFFER"}) \ {"GOT_ANSWER"}
                     ELSE @ \cup {"GOT_ANSWER"}]
           updating == type = "offer" /\ hd.agent
       IN
       IF fail
       THEN /\ handles' = [handles EXCEPT ![h] = hd]
            /\ pl' = IdlePl
       ELSE /\ handles' = [handles EXCEPT ![h] =
                   IF type = "offer" /\ ~hd.agent
                   THEN janus_ice_setup_local(hd) ELSE hd]
            /\ pl' = [IdlePl EXCEPT !.pc = "merged", !.handle = h,
                                     !.type = type, !.updating = updating]
    /\ UNCHANGED <<session_timeout, authVars, runVars, sess, sessions,
                   sessions_mutex, next_handle, disp, wd, tr, last,
                   plugin_destroyed, ice_parsed, ntrickles, wk>>
    /\ tcalls' = <<>>

\* janus_plugin_handle_sdp for an SDP that sets up a new PeerConnection (not
\* an update), from its start to the wait for the candidates (lines
\* 2674-2767): the flags are set, an offer sets up ICE, which starts to
\* gather the candidates
GatherBegin(h, type) ==
    /\ pl.pc = "idle"
    /\ Reachable(h)
    /\ IF type = "offer" THEN ~handles[h].agent ELSE handles[h].stream
    /\ LET hd == [handles[h] EXCEPT !.flags =
                     IF type = "offer"
                     THEN (@ \cup {"GOT_OFFER"}) \ {"GOT_ANSWER"}
                     ELSE @ \cup {"GOT_ANSWER"}]
       IN  handles' = [handles EXCEPT ![h] =
                          IF type = "offer" THEN janus_ice_setup_local(hd)
                          ELSE hd]
    /\ pl' = [IdlePl EXCEPT !.pc = "gather", !.handle = h, !.type = type]
    /\ UNCHANGED <<session_timeout, authVars, runVars, sess, sessions,
                   sessions_mutex, next_handle, disp, wd, tr, last,
                   plugin_destroyed, ice_parsed, ntrickles, wk>>
    /\ tcalls' = <<>>

\* one round of the wait for the candidates-done callback (lines
\* 2768-2783), from the end of a sleep to the start of the next: the test
\* of cdone after the sleep, the test of the loop, the test of STOP and
\* ALERT, the sleep of 100 ms; the loop has no test of the time waited
\* (waited counts the sleeps, up to MaxWaited)
GatherPoll ==
    /\ pl.pc = "gather"
    /\ LET hd == handles[pl.handle] IN
       IF pl.waited > 0 /\ hd.cdone < 0
       THEN pl' = IdlePl
       ELSE IF ~(hd.cdone < 1)
       THEN pl' = [pl EXCEPT !.pc = "merged", !.waited = 0]
       ELSE IF "STOP" \in hd.flags \/ "ALERT" \in hd.flags
       THEN pl' = IdlePl
       ELSE pl' = [pl EXCEPT !.waited = Min(@ + 1, MaxWaited)]
    /\ UNCHANGED <<session_timeout, authVars, runVars, sess, sessions,
                   sessions_mutex, handles, next_handle, disp, wd, tr, last,
                   plugin_destroyed, ice_parsed, ntrickles, wk>>
    /\ tcalls' = <<>>

\* the ICE code tells how the gathering of the candidates of handle h
\* ended: cdone is 1 when all were gathered, negative on an error
CandidatesDone(h, cdone) ==
    /\ handles[h].agent
    /\ handles[h].cdone = 0
    /\ handles' = [handles EXCEPT ![h].cdone = cdone]
    /\ UNCHANGED <<session_timeout, authVars, runVars, sess, sessions,
                   sessions_mutex, next_handle, disp, wd, tr, last,
                   plugin_destroyed, sigVars>>
    /\ tcalls' = <<>>

\* the ICE code sets WEBRTC_STOP (the handle is detached) or WEBRTC_ALERT
\* (the PeerConnection is closed) on handle h
IceStops(h, flag) ==
    /\ handles[h].st = "live"
    /\ flag \in {"STOP", "ALERT"}
    /\ flag \notin handles[h].flags
    /\ handles' = [handles EXCEPT ![h].flags = @ \cup {flag}]
    /\ UNCHANGED <<session_timeout, authVars, runVars, sess, sessions,
                   sessions_mutex, next_handle, disp, wd, tr, last,
                   plugin_destroyed, sigVars>>
    /\ tcalls' = <<>>

\* the end of janus_plugin_handle_sdp (lines 2838-2871): an offer sets
\* PROCESSING_OFFER, an answer drains the trickles with the handle locked
PluginSdpEnd ==
    /\ pl.pc = "merged"
    /\ pl' = IdlePl
    /\ LET h == pl.handle
           hd == handles[h]
       IN
       IF pl.updating
       THEN UNCHANGED <<handles, ice_parsed>>
       ELSE IF pl.type = "offer"
       THEN /\ handles' = [handles EXCEPT ![h].flags =
                               @ \cup {"PROCESSING_OFFER"}]
            /\ UNCHANGED ice_parsed
       ELSE /\ handles' = [handles EXCEPT ![h] =
                   janus_request_ice_handle_answer(hd)]
            /\ ice_parsed' = [ice_parsed EXCEPT ![h] =
                   DrainTrickles(hd.pending_trickles, @)]
    /\ UNCHANGED <<session_timeout, authVars, runVars, sess, sessions,
                   sessions_mutex, next_handle, disp, wd, tr, last,
                   plugin_destroyed, ntrickles, wk>>
    /\ tcalls' = <<>>

\* ------------------------------------------------------------------ time
\* TickLen seconds pass: every timestamp gets older
Tick ==
    /\ sess' = [o \in Objs |->
                   IF sess[o].st = "live"
                   THEN [sess[o] EXCEPT !.idle = Older(@, TickLen, IdleCap)]
                   ELSE sess[o]]
    /\ handles' = [h \in HandleIds |->
                      [handles[h] EXCEPT !.pending_trickles =
                          [i \in DOMAIN @ |->
                              [@[i] EXCEPT !.age = Older(@, TickLen, AgeCap)]]]]
    /\ wk' = IF wk.pc = "stamp"
             THEN [wk EXCEPT !.stamp = Older(@, TickLen, IdleCap)]
             ELSE wk
    /\ UNCHANGED <<session_timeout, authVars, runVars, sessions, sessions_mutex,
                   next_handle, disp, wd, tr, last, plugin_destroyed,
                   ice_parsed, ntrickles, pl>>
    /\ tcalls' = <<>>

\* the thread that takes the step holds the mutex of the handle it works
\* on: a pool worker from the lock of line 1075 to the unlock of 1229
\* (or of the error paths before), the request thread in the trickle verb
\* (1345-1408), the thread of the plugin around
\* janus_request_ice_handle_answer (2844-2846)
HandleMutexHeld ==
    \/ wk.pc = "jsep" /\ wk' # wk
    \/ disp.pc = "found" /\ disp.req.janus = "trickle" /\ disp' # disp
    \/ pl.pc = "merged" /\ pl.type = "answer" /\ ~pl.updating /\ pl' # pl

\* the same done at once by the thread of the plugin: no callback is left
\* to the watchdog context, the handle is removed from its session
PluginDirect(h, what) ==
    /\ pl.pc = "idle"
    /\ Reachable(h)
    /\ what \in {"close_pc", "end_session"}
    /\ handles' = janus_ice_handle_destroy(handles, {h})
    /\ sess' = [sess EXCEPT ![handles[h].session] =
                   janus_session_handles_remove(@, h)]
    /\ plugin_destroyed' = plugin_destroyed \cup {h}
    /\ UNCHANGED <<session_timeout, authVars, runVars, sessions,
                   sessions_mutex, next_handle, disp, wd, tr, last,
                   ice_parsed, ntrickles, wk, pl>>
    /\ tcalls' = <<>>

\* janus_plugin_close_pc and janus_plugin_end_session, called by the plugin
\* of handle h: the work is left to a callback of the watchdog context;
\* close_pc takes a reference on the plugin session for it.  ref and pref
\* of a handle count the references on the handle and on its plugin session
\* that callbacks have taken and not released
PluginDeferred(h, what) ==
    /\ pl.pc = "idle"
    /\ Reachable(h)
    /\ what \in {"close_pc", "end_session"}
    /\ handles[h].pref > -MaxLeak /\ handles[h].ref < MaxLeak
    /\ pl' = [IdlePl EXCEPT !.pc = what, !.handle = h]
    /\ handles' = [handles EXCEPT ![h].pref =
                       IF what = "close_pc" THEN @ + 1 ELSE @]
    /\ UNCHANGED <<session_timeout, authVars, runVars, sess, sessions,
                   sessions_mutex, next_handle, disp, wd, tr, last,
                   plugin_destroyed, ice_parsed, ntrickles, wk>>
    /\ tcalls' = <<>>

\* janus_plugin_close_pc_internal and janus_plugin_end_session_internal
\* (lines 2908-2930 and 2943-2966), run by the watchdog context; stop tells
\* whether ice.c has set WEBRTC_STOP or WEBRTC_ALERT on the handle
PluginInternal(stop) ==
    /\ pl.pc \in {"close_pc", "end_session"}
    /\ pl' = IdlePl
    /\ LET h == pl.handle
           hd == handles[h]
           o == hd.session
           taken == [hd EXCEPT !.ref = @ + 1]
           released == [taken EXCEPT !.ref = @ - 1, !.pref = @ - 1]
       IN
       IF stop \/ hd.st # "live"
       THEN /\ handles' = [handles EXCEPT ![h] = released]
            /\ UNCHANGED <<sess, plugin_destroyed>>
       ELSE IF pl.pc = "close_pc"
       THEN /\ handles' = [handles EXCEPT ![h] =
                               janus_ice_webrtc_hangup(released)]
            /\ UNCHANGED <<sess, plugin_destroyed>>
       ELSE /\ handles' = janus_ice_handle_destroy(
                              [handles EXCEPT ![h] = taken], {h})
            /\ sess' = [sess EXCEPT ![o] =
                           janus_session_handles_remove(@, h)]
            /\ plugin_destroyed' = plugin_destroyed \cup {h}
    /\ UNCHANGED <<session_timeout, authVars, runVars, sessions, sessions_mutex,
                   next_handle, disp, wd, tr, last, ice_parsed, ntrickles,
                   wk>>
    /\ tcalls' = <<>>

\* -------------------------------------------- the queue and the shutdown
\* the sentinel main() pushes to end the request thread (exit_message): the
\* queue holds the numbers of the requests, in the order of their arrival
exit_message == 0

RequestNums == 1..MaxQueued

\* a janus_request: its admin flag, the "janus" field of its message; where
\* it is (st: not created yet, in the queue, handled by the request thread
\* ("inline"), pushed to the pool, handled by a pool thread ("task"), refused
\* by the pool ("failed"), done with), how many replies it got, and who
\* called janus_request_destroy on it
NoRequest ==
    [admin |-> FALSE, janus |-> "none", st |-> "new", replies |-> 0,
     freed |-> "none"]

\* main() in its loop (line 4101), everything up: pc is the step of the
\* shutdown main() takes next; stop is the flag of the signal handler;
\* dispatcher is where janus_transport_requests is ("pop": at the test of
\* its loop done, in g_async_queue_pop; "handling": in the body of the
\* loop; "ended"), with cur the request it handles; reqs are the requests
\* created so far, arrived their number
Running ==
    [pc |-> "loop", stop |-> 0, dispatcher |-> "pop", cur |-> 0,
     pool |-> "up", transports |-> "up", plugins |-> "up", table |-> "up",
     arrived |-> 0, reqs |-> [n \in RequestNums |-> NoRequest]]

\* the kinds of requests the transports enqueue here
Kinds ==
    {<<FALSE, "keepalive">>, <<FALSE, "message">>,
     <<TRUE, "info">>, <<TRUE, "message">>}

\* the request the queue gives to g_async_queue_pop: the one at its tail
\* instead of the one at its head
PopNewest(q) == [item |-> q[Len(q)], rest |-> SubSeq(q, 1, Len(q) - 1)]
\* g_async_queue_pop: the request at the head of the queue
g_async_queue_pop(q) == [item |-> Head(q), rest |-> Tail(q)]

\* every non-admin request is pushed to the pool
AlwaysPooled(admin, janus) == ~admin
\* the test of lines 2520-2523: the request goes to the pool when it is no
\* admin request and its verb is "message"
Pooled(admin, janus) == ~admin /\ janus = "message"

\* janus_transport_incoming_request: a transport enqueues a request
Arrive(admin, janus) ==
    /\ main.transports = "up"
    /\ main.arrived < MaxQueued
    /\ LET n == main.arrived + 1 IN
       /\ requests' = Append(requests, n)
       /\ main' = [main EXCEPT
                      !.arrived = n,
                      !.reqs[n] = [NoRequest EXCEPT !.admin = admin,
                                                    !.janus = janus,
                                                    !.st = "queued"]]
    /\ UNCHANGED <<session_timeout, authVars, unheld, sess, sessions,
                   sessions_mutex, handles, next_handle, disp, wd, tr, last,
                   plugin_destroyed, sigVars>>
    /\ tcalls' = <<>>

\* janus_transport_requests, from g_async_queue_pop on (lines 2515-2545):
\* the sentinel ends the thread; an admin request is handled here, to its
\* reply; a message is pushed to the pool, and answered here with the error
\* UNKNOWN when the push fails (pushed tells whether it succeeds); any
\* other request is handled here, by janus_process_incoming_request
Dequeue ==
    /\ main.dispatcher = "pop"
    /\ disp.pc = "idle"
    /\ requests # <<>>
    /\ LET n == g_async_queue_pop(requests).item
           r == main.reqs[n]
           Handling(st, replies) ==
               [main EXCEPT !.dispatcher = "handling", !.cur = n,
                            !.reqs[n].st = st,
                            !.reqs[n].replies = @ + replies]
           areq == [janus |-> r.janus, admin_secret |-> NoStr,
                    session_id |-> 0, handle_id |-> ABSENT,
                    value |-> ABSENT, token |-> NoStr, plugins |-> {}]
           error == AdminOutcome(areq, TRUE).error
       IN
       /\ requests' = g_async_queue_pop(requests).rest
       /\ IF n = exit_message
          THEN /\ main' = [main EXCEPT !.dispatcher = "ended"]
               /\ UNCHANGED <<disp, last>>
          ELSE IF Pooled(r.admin, r.janus)
          THEN \E pushed \in BOOLEAN :
                   IF pushed
                   THEN /\ main' = Handling("pool", 0)
                        /\ UNCHANGED <<disp, last>>
                   ELSE /\ main' = Handling("failed", 1)
                        /\ last' = [NoLast EXCEPT
                                       !.janus = "message",
                                       !.reply = "error",
                                       !.error = "UNKNOWN", !.sent = 1,
                                       !.carried = "t1",
                                       !.transaction = NoStr]
                        /\ UNCHANGED disp
          ELSE IF r.admin
          THEN /\ main' = Handling("inline", 1)
               /\ last' = [NoLast EXCEPT
                              !.janus = r.janus, !.sent = 1,
                              !.carried = "t1", !.transaction = "t1",
                              !.reply = IF error = "none" THEN "success"
                                        ELSE "error",
                              !.error = error]
               /\ UNCHANGED disp
          ELSE /\ main' = Handling("inline", 0)
               /\ disp' = [pc |-> "begin",
                           req |-> [NoReq EXCEPT !.janus = r.janus,
                                                 !.session_id = 1,
                                                 !.token = "tokenA"],
                           session |-> NULL]
               /\ last' = NoLast
    /\ UNCHANGED <<session_timeout, authVars, unheld, sess, sessions,
                   sessions_mutex, handles, next_handle, wd, tr,
                   plugin_destroyed, sigVars>>
    /\ tcalls' = <<>>

\* janus_transport_requests, the end of the body of its loop and the test
\* of the loop (lines 2546-2548 and 2514): the request is destroyed unless
\* it was pushed to the pool (whatever the pool has done with it since),
\* and the thread ends when stop is set
LoopEnd ==
    /\ main.dispatcher = "handling"
    /\ disp.pc = "idle"
    /\ LET n == main.cur
           destroy == main.reqs[n].st \in {"inline", "failed"}
       IN  main' = [main EXCEPT
                       !.dispatcher = IF main.stop # 0 THEN "ended"
                                      ELSE "pop",
                       !.cur = 0,
                       !.reqs[n] =
                           IF destroy
                           THEN [@ EXCEPT
                                   !.st = "done", !.freed = "dispatcher",
                                   !.replies =
                                       IF main.reqs[n].st = "inline"
                                          /\ ~main.reqs[n].admin
                                       THEN last.sent ELSE @]
                           ELSE @]
    /\ UNCHANGED <<session_timeout, authVars, unheld, requests, sess, sessions,
                   sessions_mutex, handles, next_handle, disp, wd, tr, last,
                   plugin_destroyed, sigVars>>
    /\ tcalls' = <<>>

\* a thread of the pool starts janus_transport_task for request n
TaskTake(n) ==
    /\ main.reqs[n].st = "pool"
    /\ \A m \in RequestNums : main.reqs[m].st # "task"
    /\ wk.pc = "idle"
    /\ main' = [main EXCEPT !.reqs[n].st = "task"]
    /\ wk' = IdleWk
    /\ UNCHANGED <<session_timeout, authVars, unheld, requests, sess, sessions,
                   sessions_mutex, handles, next_handle, disp, wd, tr, last,
                   plugin_destroyed, ice_parsed, ntrickles, pl>>
    /\ tcalls' = <<>>

\* the request of the task is handled by janus_process_incoming_request
\* (line 2501): a message with no jsep for handle h
TaskMessage(h) ==
    /\ \E n \in RequestNums : main.reqs[n].st = "task"
    /\ wk = IdleWk
    /\ MessageBegin(h, "none", "none")

\* the end of janus_transport_task (line 2505): the request is destroyed
TaskEnd ==
    /\ wk.pc = "idle"
    /\ wk.reply # "none"
    /\ \E n \in RequestNums :
           /\ main.reqs[n].st = "task"
           /\ main' = [main EXCEPT !.reqs[n] =
                          [@ EXCEPT !.st = "done", !.freed = "pool",
                                    !.replies = @ + 1]]
    /\ UNCHANGED <<session_timeout, authVars, unheld, requests, sess, sessions,
                   sessions_mutex, handles, next_handle, disp, wd, tr, last,
                   plugin_destroyed, sigVars>>
    /\ tcalls' = <<>>

\* janus_handle_signal: the first signal (a second one changes nothing
\* here, a third one exits)
Signal ==
    /\ main.stop = 0
    /\ main' = [main EXCEPT !.stop = 1]
    /\ UNCHANGED <<session_timeout, authVars, unheld, requests, sess, sessions,
                   sessions_mutex, handles, next_handle, disp, wd, tr, last,
                   plugin_destroyed, sigVars>>
    /\ tcalls' = <<>>

\* main() from the end of its loop on (lines 4101-4164), one step at a
\* time: the watchdog loop is quit and its thread joined, the transports
\* are destroyed, the pool is freed without waiting for its tasks, the
\* sentinel is pushed, the request thread is joined, the table of the
\* sessions is destroyed (it has no function to destroy its values, line
\* 3661), the plugins are destroyed
MainStep ==
    /\ main.pc # "done"
    /\ CASE main.pc = "loop" ->
              /\ main.stop # 0
              /\ main' = [main EXCEPT !.pc = "watchdog"]
              /\ UNCHANGED <<wd, requests, sessions>>
         [] main.pc = "watchdog" ->
              /\ wd.pc = "idle"
              /\ wd' = [wd EXCEPT !.pc = "quit"]
              /\ main' = [main EXCEPT !.pc = "transports"]
              /\ UNCHANGED <<requests, sessions>>
         [] main.pc = "transports" ->
              /\ main' = [main EXCEPT !.pc = "pool", !.transports = "down"]
              /\ UNCHANGED <<wd, requests, sessions>>
         [] main.pc = "pool" ->
              /\ main' = [main EXCEPT !.pc = "sentinel", !.pool = "freed"]
              /\ UNCHANGED <<wd, requests, sessions>>
         [] main.pc = "sentinel" ->
              /\ requests' = Append(requests, exit_message)
              /\ main' = [main EXCEPT !.pc = "join"]
              /\ UNCHANGED <<wd, sessions>>
         [] main.pc = "join" ->
              /\ main.dispatcher = "ended"
              /\ main' = [main EXCEPT !.pc = "sessions"]
              /\ UNCHANGED <<wd, requests, sessions>>
         [] main.pc = "sessions" ->
              /\ sessions_mutex = "free"
              /\ sessions' = [i \in SessionIds |-> NULL]
              /\ main' = [main EXCEPT !.pc = "plugins", !.table = "destroyed"]
              /\ UNCHANGED <<wd, requests>>
         [] main.pc = "plugins" ->
              /\ main' = [main EXCEPT !.pc = "done", !.plugins = "down"]
              /\ UNCHANGED <<wd, requests, sessions>>
    /\ UNCHANGED <<session_timeout, authVars, unheld, sess, sessions_mutex,
                   handles, next_handle, disp, tr, last, plugin_destroyed,
                   sigVars>>
    /\ tcalls' = <<>>

\* ------------------------------------------------------ the specification
\* the state after main() has started the core, but for the configuration
Started ==
    /\ sess = [o \in Objs |-> NoSession]
    /\ sessions = [i \in SessionIds |-> NULL]
    /\ sessions_mutex = "free"
    /\ handles = [h \in HandleIds |-> NoHandle]
    /\ next_handle = 0
    /\ disp = IdleDisp
    /\ wd = IdleWd
    /\ tr = IdleTr
    /\ last = NoLast
    /\ tcalls = <<>>
    /\ plugin_destroyed = {}
    /\ ice_parsed = [h \in HandleIds |-> <<>>]
    /\ ntrickles = 0
    /\ wk = IdleWk
    /\ pl = IdlePl
    /\ requests = <<>>
    /\ main = Running
    /\ unheld = {}

\* token auth enabled, no API secret, any session timeout
Init ==
    /\ session_timeout \in Timeouts
    /\ admin_api_secret = NoStr
    /\ settings = [v \in SettingVerbs |-> 0]
    /\ api_secret = NoStr
    /\ auth_enabled = TRUE
    /\ tokens = Tokens
    /\ allowed = {<<"tokenA", "plugin.echo">>}
    /\ Started

Next ==
    \/ \E req \in LifeRequests : Receive(req)
    \/ ProcessRequest
    \/ ProcessVerb
    \/ ProcessDestroy
    \/ \E t \in Timeouts \cup {-1} : AdminSetSessionTimeout(t)
    \/ AdminListSessions
    \/ SweepBegin
    \/ \E o \in Objs : SweepSession(o)
    \/ SweepEnd
    \/ \E t \in Instances : GoneBegin(t)
    \/ \E o \in Objs : GoneSession(o)
    \/ GoneRemove
    \/ GoneEnd
    \/ Tick

Spec == Init /\ [][Next]_vars

\* the request handler alone, with every verb under every addressing
NextPath ==
    \/ \E req \in Requests : Receive(req)
    \/ ProcessRequest
    \/ ProcessVerb
    \/ ProcessDestroy

SpecPath == Init /\ [][NextPath]_vars

\* every configuration of the API secret and of the token auth module
InitAuth ==
    /\ session_timeout = 0
    /\ admin_api_secret = NoStr
    /\ settings = [v \in SettingVerbs |-> 0]
    /\ api_secret \in {NoStr} \cup Secrets
    /\ auth_enabled \in BOOLEAN
    /\ tokens \in IF auth_enabled THEN SUBSET Tokens ELSE {{}}
    /\ allowed = {}
    /\ Started

NextAuth ==
    \/ \E req \in AuthRequests : Receive(req)
    \/ ProcessRequest
    \/ ProcessVerb

SpecAuth == InitAuth /\ [][NextAuth]_vars

\* the registry under the sweeper alone: a timeout above 0, clients that
\* create, keep alive and destroy sessions, time that passes.  The watchdog
\* is a timer of the main loop that fires every 2 s (line 493), a request
\* taken by the request thread is handled to its reply, and Tick is the
\* passing of time: each step is taken if it stays possible
LiveRequests ==
    {r \in LifeRequests : r.janus \in {"create", "keepalive", "destroy"}}

InitLive ==
    /\ Init
    /\ session_timeout > 0

NextLive ==
    \/ \E req \in LiveRequests : Receive(req)
    \/ ProcessRequest
    \/ ProcessVerb
    \/ ProcessDestroy
    \/ SweepBegin
    \/ \E o \in Objs : SweepSession(o)
    \/ SweepEnd
    \/ Tick

LiveSpec ==
    /\ InitLive
    /\ [][NextLive]_vars
    /\ WF_vars(ProcessRequest)
    /\ WF_vars(ProcessVerb)
    /\ WF_vars(ProcessDestroy)
    /\ WF_vars(SweepBegin)
    /\ WF_vars(\E o \in Objs : SweepSession(o))
    /\ WF_vars(SweepEnd)
    /\ WF_vars(Tick)

\* the signalling of one handle: a session with a handle attached to a
\* plugin, as create and attach leave them; trickles, messages with a jsep,
\* events of the plugin with a jsep; time that passes; no sweeper
InitHandle ==
    /\ session_timeout = 0
    /\ settings = [v \in SettingVerbs |-> 0]
    /\ api_secret = NoStr
    /\ auth_enabled = TRUE
    /\ tokens = Tokens
    /\ allowed = {<<"tokenA", "plugin.echo">>}
    /\ sess = [o \in Objs |->
                  IF o = 1
                  THEN janus_session_handles_insert(
                           janus_session_create(1, 1), 1)
                  ELSE NoSession]
    /\ sessions = [i \in SessionIds |-> IF i = 1 THEN 1 ELSE NULL]
    /\ sessions_mutex = "free"
    /\ handles = [h \in HandleIds |->
                     IF h = 1
                     THEN [NoHandle EXCEPT !.st = "live", !.session = 1,
                                           !.app = "plugin.echo"]
                     ELSE NoHandle]
    /\ next_handle = 1
    /\ disp = IdleDisp
    /\ wd = IdleWd
    /\ tr = IdleTr
    /\ last = NoLast
    /\ tcalls = <<>>
    /\ plugin_destroyed = {}
    /\ ice_parsed = [h \in HandleIds |-> <<>>]
    /\ ntrickles = 0
    /\ wk = IdleWk
    /\ pl = IdlePl
    /\ requests = <<>>
    /\ main = Running
    /\ unheld = {}

InitTrickle ==
    /\ InitHandle
    /\ admin_api_secret = NoStr

JsepTypes == {"offer", "answer", "bogus"}
\* the jseps of the messages: every type with an sdp that parses, an offer
\* and an answer with one that does not
Jseps ==
    {<<type, "valid">> : type \in JsepTypes} \cup
    {<<type, "unparsable">> : type \in {"offer", "answer"}}

NextTrickle ==
    \/ \E req \in TrickleRequests : Receive(req)
    \/ ProcessRequest
    \/ ProcessVerb
    \/ \E jsep \in Jseps : MessageBegin(1, jsep[1], jsep[2])
    \/ MessageJsep
    \/ MessageForward(EchoResults)
    \/ \E type \in {"offer", "answer"}, fail \in BOOLEAN :
           PluginSdp(1, type, fail)
    \/ PluginSdpEnd
    \/ Tick

SpecTrickle == InitTrickle /\ [][NextTrickle]_vars

\* the signalling of one handle with the cleanup of its media session: the
\* hangup verb starts it, the ICE code ends it; trickles come at any time,
\* messages with a jsep while the handle is not being cleaned up
CleanRequests ==
    TrickleRequests \cup
    {[NoReq EXCEPT !.janus = "hangup", !.session_id = 1, !.handle_id = 1,
                   !.token = "tokenA"]}

NextClean ==
    \/ \E req \in CleanRequests : Receive(req)
    \/ ProcessRequest
    \/ ProcessVerb
    \/ \E jsep \in Jseps :
           /\ "CLEANING" \notin handles[1].flags
           /\ MessageBegin(1, jsep[1], jsep[2])
    \/ MessageJsep
    \/ MessageForward(EchoResults)
    \/ \E type \in {"offer", "answer"}, fail \in BOOLEAN :
           PluginSdp(1, type, fail)
    \/ PluginSdpEnd
    \/ IceWebrtcFree(1)

SpecClean == InitTrickle /\ [][NextClean]_vars

\* the top-level fields of a request: "transaction" and "janus" carried as
\* a string, as another JSON value, or not at all
TopRequests ==
    {[NoReq EXCEPT !.janus = v, !.transaction = t, !.session_id = s,
                   !.instance = 1, !.token = "tokenA"] :
        v \in {NoStr, NonStr, "create", "keepalive", "message"},
        t \in {NoStr, NonStr, "t1", "t2"},
        s \in 0..MaxSessionId}

NextTop ==
    \/ \E req \in TopRequests : Receive(req)
    \/ \E req \in TopRequests : PoolError(req)
    \/ ProcessRequest
    \/ ProcessVerb

SpecTop == Init /\ [][NextTop]_vars

\* the request thread and a pool worker on the same session: keepalives
\* handled by the thread, messages with a jsep by the worker, time passing
ActivityRequests ==
    {[NoReq EXCEPT !.janus = "keepalive", !.session_id = 1,
                   !.token = "tokenA"]}

NextActivity ==
    \/ \E req \in ActivityRequests : Receive(req)
    \/ ProcessRequest
    \/ ProcessVerb
    \/ \E jsep \in Jseps : MessageFind(1, jsep[1], jsep[2])
    \/ MessageStamp
    \/ MessageJsep
    \/ MessageForward(EchoResults)
    \/ Tick

SpecActivity == InitTrickle /\ [][NextActivity]_vars

\* messages with an offer for a handle whose media session is hung up and
\* cleaned up at any time; the worker is a running thread: each sleep of
\* its wait loop ends
WaitRequests ==
    {[NoReq EXCEPT !.janus = "hangup", !.session_id = 1, !.handle_id = 1,
                   !.token = "tokenA"]}

NextWait ==
    \/ \E req \in WaitRequests : Receive(req)
    \/ ProcessRequest
    \/ ProcessVerb
    \/ MessageBegin(1, "offer", "valid")
    \/ MessagePoll
    \/ MessageJsep
    \/ MessageForward(EchoResults)
    \/ IceWebrtcFree(1)

SpecWait == InitTrickle /\ [][NextWait]_vars /\ WF_vars(MessagePoll)

\* a client that keeps its session alive, with or without the id of its
\* handle, between trickles and hangups, while time passes
NextKeep ==
    \/ \E req \in CleanRequests \cup
                    {[NoReq EXCEPT !.janus = "keepalive", !.session_id = 1,
                                   !.handle_id = h, !.token = "tokenA"] :
                        h \in {ABSENT, 1}} : Receive(req)
    \/ ProcessRequest
    \/ ProcessVerb
    \/ Tick

SpecKeep == InitTrickle /\ [][NextKeep]_vars

\* the admin API with an admin secret configured: every verb that changes
\* a setting, a token or a handle, from a client that has no secret or
\* another one; from the client that has the secret, set_session_timeout,
\* three of the set_* verbs, the token verbs and the text2pcap verbs
AdminRequests ==
    LET Req(v, a) == [janus |-> v, admin_secret |-> a, session_id |-> 0,
                      handle_id |-> ABSENT, value |-> ABSENT,
                      token |-> NoStr, plugins |-> {}]
        AdminSecrets == {NoStr, NonStr, "adminpwd", "other"}
        Known(v, a) ==
            \/ a # "adminpwd"
            \/ v \in {"set_session_timeout", "set_log_level",
                      "set_locking_debug", "set_max_nack_queue"}
    IN
    {r \in {[Req(v, a) EXCEPT !.value = n] :
                v \in SettingVerbs \cup {"set_session_timeout"},
                a \in AdminSecrets, n \in {ABSENT, 0, 1}} :
        Known(r.janus, r.admin_secret)}
    \cup
    {[Req(v, a) EXCEPT !.token = "tokenX", !.plugins = ps] :
        v \in {"add_token", "allow_token", "disallow_token", "remove_token"},
        a \in AdminSecrets, ps \in SUBSET LoadedPlugins}
    \cup
    {[Req(v, a) EXCEPT !.session_id = 1, !.handle_id = 1, !.value = 1] :
        v \in {"start_text2pcap", "stop_text2pcap"}, a \in AdminSecrets}

InitAdmin ==
    /\ InitHandle
    /\ admin_api_secret = "adminpwd"

NextAdmin == \E req \in AdminRequests : AdminRequest(req)

SpecAdmin == InitAdmin /\ [][NextAdmin]_vars

\* a plugin that asks to close the PeerConnection of its handle and to end
\* its session, while trickles and hangups of the client are handled
NextRefs ==
    \/ \E req \in CleanRequests : Receive(req)
    \/ ProcessRequest
    \/ ProcessVerb
    \/ \E what \in {"close_pc", "end_session"} : PluginDeferred(1, what)
    \/ \E stop \in BOOLEAN : PluginInternal(stop)

SpecRefs == InitTrickle /\ [][NextRefs]_vars

\* messages with and without a jsep for a handle whose plugin may return
\* any result
NextResult ==
    \/ \E jsep \in Jseps \cup {<<"none", "none">>} :
           MessageBegin(1, jsep[1], jsep[2])
    \/ MessageJsep
    \/ MessageForward(PluginResults)

SpecResult == InitTrickle /\ [][NextResult]_vars

\* a plugin that pushes offers and answers for a handle while ICE gathers
\* the candidates, completes, fails or is stopped; the plugin thread is a
\* running thread: each sleep of its wait loop ends
NextGather ==
    \/ \E type \in {"offer", "answer"} : GatherBegin(1, type)
    \/ GatherPoll
    \/ \E cdone \in {1, -1} : CandidatesDone(1, cdone)
    \/ \E flag \in {"STOP", "ALERT"} : IceStops(1, flag)
    \/ PluginSdpEnd
    \/ \E req \in TrickleRequests : Receive(req)
    \/ ProcessRequest
    \/ ProcessVerb

SpecGather == InitTrickle /\ [][NextGather]_vars /\ WF_vars(GatherPoll)

\* the request thread, the pool and main() from the start of the core to
\* the end of its shutdown: requests of every kind arrive while the
\* transports are up, a signal stops the core at any time
NextStop ==
    \/ \E kind \in Kinds : Arrive(kind[1], kind[2])
    \/ Dequeue
    \/ ProcessRequest
    \/ ProcessVerb
    \/ LoopEnd
    \/ \E n \in RequestNums : TaskTake(n)
    \/ TaskMessage(1)
    \/ MessageForward(EchoResults)
    \/ TaskEnd
    \/ Signal
    \/ MainStep

SpecStop == InitTrickle /\ [][NextStop]_vars

\* the request handler and the signalling of a handle, with an ICE code
\* that may fail to create a handle
NextLocks ==
    \/ \E req \in LifeRequests : Receive(req)
    \/ ProcessRequest
    \/ ProcessVerb
    \/ ProcessDestroy
    \/ AttachCreateFails
    \/ \E jsep \in Jseps : MessageBegin(1, jsep[1], jsep[2])
    \/ MessageJsep
    \/ MessageForward(EchoResults)

SpecLocks == Init /\ [][NextLocks]_vars

\* clients that ask for session ids of their own, taken ones too
ConflictRequests ==
    {r \in LifeRequests : r.janus \in {"create", "keepalive", "destroy"}}

NextConflict ==
    \/ \E req \in ConflictRequests : Receive(req)
    \/ \E req \in ConflictRequests : ReceiveConflict(req)
    \/ ProcessRequest
    \/ ProcessVerb
    \/ ProcessDestroy
    \/ AdminListSessions

SpecConflict == Init /\ [][NextConflict]_vars

\* ================================================================ claims
\* sessions of the registry, as a client sees it once the lock is free
InRegistry(o) == o \in InTable

\* C1: destroy on an existing session is answered with success and leaves
\* the session id out of the registry; a destroy of the same session id
\* that comes right after it is answered with SESSION_NOT_FOUND.
C1_DestroyTwice ==
    /\ (disp.pc = "idle" /\ last.destroyed # 0) =>
           /\ last.reply = "success"
           /\ janus_session_find(last.destroyed) = NULL
    /\ last.twice => last.error = "SESSION_NOT_FOUND"

C1_Witness ==
    /\ disp.pc = "idle"
    /\ last.janus = "destroy"
    /\ last.twice
    /\ last.error = "SESSION_NOT_FOUND"

\* C2: once the destroyed flag of a session is set it is never cleared, and
\* no thread that takes sessions_mutex finds a destroyed session in the
\* registry: janus_session_find returns not-found for its id.
C2_DestroyedForGood ==
    /\ [](sessions_mutex = "free" =>
              \A i \in SessionIds :
                  janus_session_find(i) # NULL =>
                      sess[janus_session_find(i)].destroyed = 0)
    /\ [][\A o \in Objs : sess[o].destroyed # 0 => sess'[o].destroyed # 0]_vars

C2_Witness ==
    /\ sessions_mutex = "free"
    /\ \E o \in Objs :
           /\ sess[o].st = "live"
           /\ sess[o].destroyed = 1
           /\ janus_session_find(sess[o].session_id) = NULL

\* C3: when janus_transport_gone(T) is about to return, every session that
\* was in the registry with transport instance T has its destroyed flag set,
\* the plugin of each of its attached handles was told destroy_session, and
\* it is out of the registry.
C3_TransportGone ==
    (tr.pc = "loop" /\ tr.todo = {}) =>
        \A o \in tr.mine :
            /\ sess[o].destroyed # 0
            /\ ~InRegistry(o)
            /\ \A h \in tr.had :
                   handles[h].session = o => h \in plugin_destroyed

\* C5: while session_timeout is 0 no round of the sweeper expires a session.
C5_ZeroDisables ==
    [][(session_timeout = 0 /\ wd.pc = "loop" /\ wd' # wd) =>
           /\ sessions' = sessions
           /\ \A o \in Objs : sess'[o].destroyed = sess[o].destroyed
           /\ tcalls' = <<>>]_vars

\* C8: an attach that is answered with an error leaves the handle map of
\* the session as it was: no handle the request created stays in it.
C8_AttachFailure ==
    [][(disp.pc = "found" /\ disp.req.janus = "attach"
        /\ disp'.pc = "idle" /\ last'.reply = "error") =>
           /\ sess'[disp.session].ice_handles =
                  sess[disp.session].ice_handles
           /\ \A h \in HandleIds :
                  handles'[h].st # handles[h].st =>
                      \A o \in Objs : h \notin sess'[o].ice_handles]_vars

C8_Witness ==
    /\ disp.pc = "idle"
    /\ last.janus = "attach"
    /\ last.error = "PLUGIN_ATTACH"
    /\ last.session # NULL
    /\ sess[last.session].st = "live"
    /\ \E h \in HandleIds :
           /\ handles[h].session = last.session
           /\ handles[h].st = "destroyed"
           /\ h \notin sess[last.session].ice_handles

\* the addressing of a request the handler found: its session exists and so
\* does its handle when it names one
SessionVerbs == {"keepalive", "attach", "destroy"}
HandleVerbs == {"detach", "hangup", "message", "trickle"}
HandleGiven(req) == HandleNum(req) \in sess[disp.session].ice_handles
Answered == disp.pc = "found" /\ disp'.pc = "idle"
NoScope(req) == req.session_id = 0 /\ HandleNum(req) = 0

\* C6 as the specification words it: a session-level verb sent with a handle
\* id, a handle-level verb sent without a handle id and an unknown verb are
\* each answered with INVALID_REQUEST_PATH.
C6_AsWritten ==
    [][(/\ Answered
        /\ \/ disp.req.janus \in SessionVerbs /\ HandleGiven(disp.req)
           \/ disp.req.janus \in HandleVerbs /\ disp.req.handle_id = ABSENT
           \/ disp.req.janus = "bogus" /\ disp.req.handle_id = ABSENT
           \/ disp.req.janus = "bogus" /\ HandleGiven(disp.req)) =>
           last'.error = "INVALID_REQUEST_PATH"]_vars

\* C6, amended: on an existing session attach and destroy sent with the id
\* of an existing handle, and detach, hangup, message and trickle sent
\* without a handle id, are answered with INVALID_REQUEST_PATH, and so is
\* every verb but info, ping and create sent with neither a session nor a
\* handle id; keepalive sent with the id of an existing handle is answered
\* with ack, and an unknown verb on an existing session with
\* UNKNOWN_REQUEST.
C6_InvalidPath ==
    [][/\ (/\ Answered
           /\ \/ disp.req.janus \in {"attach", "destroy"}
                 /\ HandleGiven(disp.req)
              \/ disp.req.janus \in HandleVerbs
                 /\ disp.req.handle_id = ABSENT) =>
              last'.error = "INVALID_REQUEST_PATH"
       /\ (Answered /\ disp.req.janus = "keepalive"
           /\ HandleGiven(disp.req)) =>
              last'.reply = "ack"
       /\ (/\ Answered
           /\ disp.req.janus = "bogus"
           /\ disp.req.handle_id = ABSENT \/ HandleGiven(disp.req)) =>
              last'.error = "UNKNOWN_REQUEST"
       /\ (/\ disp.pc = "begin" /\ disp'.pc = "idle"
           /\ NoScope(disp.req)
           /\ disp.req.janus \notin {"info", "ping", "create"}) =>
              last'.error = "INVALID_REQUEST_PATH"]_vars

C6_Witness ==
    /\ disp.pc = "idle"
    /\ last.janus = "attach"
    /\ last.session # NULL
    /\ last.error = "INVALID_REQUEST_PATH"
    /\ sess[last.session].ice_handles # {}

\* C7: janus_request_check_secret lets a request through if and only if its
\* apisecret equals the configured API secret, or token auth is enabled and
\* its token is one the auth module accepts, or there is neither an API
\* secret nor token auth; every other request is answered UNAUTHORIZED and
\* goes no further.
SecretMatches(req) == api_secret # NoStr /\ req.apisecret = api_secret
TokenAccepted(req) == auth_enabled /\ req.token \in tokens
BothDisabled == api_secret = NoStr /\ ~auth_enabled
ReachesCheck(req) ==
    \/ NoScope(req) /\ req.janus = "create"
    \/ req.session_id >= 1 /\ req.handle_id = ABSENT

C7_CheckSecret ==
    [][(disp.pc = "begin" /\ disp'.pc # "begin" /\ ReachesCheck(disp.req)) =>
           LET ok == \/ SecretMatches(disp.req)
                     \/ TokenAccepted(disp.req)
                     \/ BothDisabled
           IN  /\ last'.denied <=> ~ok
               /\ ~ok => /\ disp'.pc = "idle"
                         /\ last'.error = "UNAUTHORIZED"
                         /\ sess' = sess
                         /\ sessions' = sessions]_vars

\* the step that has just been taken expired session id of transport t: the
\* timeout event and session_over(timeout = TRUE) went to t and the id is out
\* of the registry
ExpiredNow(id, t) ==
    /\ janus_session_find(id) = NULL
    /\ tcalls = <<SendTimeout([source |-> t, session_id |-> id]),
                  SessionOver([source |-> t, session_id |-> id], TRUE)>>

\* C4: with a timeout above 0 a session of the registry that gets no more
\* requests (its idle time is never reset) is eventually expired by the
\* sweeper: the timeout event and session_over(timeout = TRUE) go to its
\* transport and it leaves the registry; a keepalive for an id that is not
\* in the registry is answered with SESSION_NOT_FOUND.
C4_Expiry ==
    /\ \A id \in SessionIds, o \in Objs, t \in Instances :
           [](( /\ session_timeout > 0
                /\ janus_session_find(id) = o
                /\ sess[o].source = t) =>
                  <>(\/ ExpiredNow(id, t)
                     \/ sess[o].st = "live" /\ sess[o].idle = 0))
    /\ [][(/\ disp.pc = "begin" /\ disp' # disp
           /\ disp.req.janus = "keepalive"
           /\ janus_session_find(disp.req.session_id) = NULL) =>
              last'.error = "SESSION_NOT_FOUND"]_vars

C4_Witness ==
    \E id \in SessionIds, t \in Instances : ExpiredNow(id, t)

\* the pending-trickle queue of a handle, and the steps that call
\* janus_request_ice_handle_answer on it: the end of an answer of the
\* plugin, and an answer of the client in a message
Pending(h) == handles[h].pending_trickles
PluginAnswerStep(h) ==
    /\ pl.pc = "merged" /\ pl.handle = h /\ pl.type = "answer"
    /\ ~pl.updating
    /\ pl'.pc = "idle"
ClientAnswerStep(h) ==
    /\ wk.pc = "jsep" /\ wk.handle = h /\ wk.type = "answer"
    /\ wk'.pc = "forward"
    /\ "READY" \notin handles[h].flags \/ "ALERT" \in handles[h].flags
\* the candidates of a queued trickle
Candidates(t) ==
    IF t.kind = "object" THEN {<<t.id, 0>>}
    ELSE IF t.kind = "array" THEN {<<t.id, k>> : k \in 1..t.len}
    ELSE {}
\* how often candidate c was given to ICE according to the log
Passed(log, c) ==
    Cardinality({i \in DOMAIN log : <<log[i][1], log[i][2]>> = c})

\* C9: a trickle with a candidate for a handle that has seen no SDP yet (no
\* stream, no offer) is answered with ack and appended to the queue without
\* being given to ICE; when the plugin's answer then completes, every
\* candidate of the queue that is not older than 45 s has been given to ICE
\* exactly once and the queue is empty; no candidate is ever given to ICE
\* twice, and none while it is in the queue.
C9_EarlyTrickle ==
    /\ [](\A h \in HandleIds :
              /\ \A c \in {<<n, k>> : n \in 1..ntrickles, k \in 0..MaxArray} :
                     Passed(ice_parsed[h], c) <= 1
              /\ \A i \in DOMAIN Pending(h) :
                     \A c \in Candidates(Pending(h)[i]) :
                         Passed(ice_parsed[h], c) = 0)
    /\ [][\A h \in HandleIds :
              /\ (/\ disp.pc = "found" /\ disp'.pc = "idle"
                  /\ disp.req.janus = "trickle"
                  /\ HandleNum(disp.req) = h
                  /\ h \in sess[disp.session].ice_handles
                  /\ (disp.req.candidate = "absent") #
                         (disp.req.candidates = "absent")
                  /\ ~handles[h].stream
                  /\ "GOT_OFFER" \notin handles[h].flags) =>
                     /\ last'.reply = "ack"
                     /\ Len(Pending(h)') = Len(Pending(h)) + 1
                     /\ Pending(h)'[Len(Pending(h)')].id = ntrickles'
                     /\ SubSeq(Pending(h)', 1, Len(Pending(h))) = Pending(h)
                     /\ ice_parsed' = ice_parsed
              /\ PluginAnswerStep(h) =>
                     /\ Pending(h)' = <<>>
                     /\ \A i \in DOMAIN Pending(h) :
                            Pending(h)[i].age <= TrickleMaxAge =>
                                \A c \in Candidates(Pending(h)[i]) :
                                    Passed(ice_parsed'[h], c) = 1]_vars

C9_Witness ==
    /\ pl.pc = "idle"
    /\ Pending(1) = <<>>
    /\ {"GOT_OFFER", "GOT_ANSWER"} \subseteq handles[1].flags
    /\ \E i \in DOMAIN ice_parsed[1] : ice_parsed[1][i] = <<1, 0, "drain">>

\* C10: a drain gives the candidates of the queued trickles that are at most
\* 45 s old to ICE, and no others, in the order in which the trickles were
\* queued (and the elements of an array in index order); it leaves the queue
\* empty.
C10_DrainOrder ==
    [][\A h \in HandleIds :
           (PluginAnswerStep(h) \/ ClientAnswerStep(h)) =>
               LET q == Pending(h)
                   old == ice_parsed[h]
                   new == ice_parsed'[h]
                   added == SubSeq(new, Len(old) + 1, Len(new))
               IN  /\ Pending(h)' = <<>>
                   /\ SubSeq(new, 1, Len(old)) = old
                   /\ \A i \in DOMAIN added :
                          /\ added[i][3] = "drain"
                          /\ \E k \in DOMAIN q :
                                 /\ q[k].age <= TrickleMaxAge
                                 /\ <<added[i][1], added[i][2]>> \in
                                        Candidates(q[k])
                   /\ \A i, j \in DOMAIN added :
                          i < j =>
                              \/ added[i][1] < added[j][1]
                              \/ /\ added[i][1] = added[j][1]
                                 /\ added[i][2] < added[j][2]
                   /\ \A k \in DOMAIN q :
                          q[k].age <= TrickleMaxAge =>
                              \A c \in Candidates(q[k]) :
                                  \E i \in DOMAIN added :
                                      <<added[i][1], added[i][2]>> = c]_vars

C10_Witness ==
    /\ Pending(1) = <<>>
    /\ \E i, j \in DOMAIN ice_parsed[1] :
           /\ i < j
           /\ ice_parsed[1][i][1] = 1 /\ ice_parsed[1][i][3] = "drain"
           /\ ice_parsed[1][j][1] = 2 /\ ice_parsed[1][j][3] = "drain"

\* a trickle request with one candidate object, or with an array of
\* candidates
WellFormed(req) ==
    \/ req.candidate = "object" /\ req.candidates = "absent"
    \/ req.candidate = "absent" /\ req.candidates = "array"
\* the condition under which a trickle is queued
QueueCond(hd) ==
    \/ ~hd.stream
    \/ "PROCESSING_OFFER" \in hd.flags
    \/ "GOT_OFFER" \notin hd.flags
    \/ "GOT_ANSWER" \notin hd.flags
\* the step in which the handler answers a trickle request for handle h
TrickleStep(h) ==
    /\ disp.pc = "found" /\ disp'.pc = "idle"
    /\ disp.req.janus = "trickle"
    /\ HandleNum(disp.req) = h
    /\ h \in sess[disp.session].ice_handles
\* the trickle is appended and acknowledged, ICE gets nothing
Queued(h) ==
    /\ Pending(h)' = Append(Pending(h),
                            janus_ice_trickle_new(ntrickles', disp.req))
    /\ ice_parsed'[h] = ice_parsed[h]
    /\ last'.reply = "ack"
\* the candidates of the request go to ICE at once, nothing is appended
PassedOn(h) ==
    /\ Pending(h)' = Pending(h)
    /\ ice_parsed'[h] = ice_parsed[h] \o
           (IF disp.req.candidate = "object"
            THEN << <<ntrickles', 0, "direct">> >>
            ELSE ParseArray(ntrickles', disp.req.len, "direct"))

\* C11 as the specification words it: a well-formed trickle is queued and
\* acknowledged exactly when the handle has no stream, or PROCESSING_OFFER
\* is set, or GOT_OFFER or GOT_ANSWER is not set; otherwise it goes to ICE.
C11_AsWritten ==
    [][\A h \in HandleIds :
           (TrickleStep(h) /\ WellFormed(disp.req)) =>
               IF QueueCond(handles[h]) THEN Queued(h) ELSE PassedOn(h)]_vars

\* C11, amended: that holds for a handle whose CLEANING flag is not set; a
\* trickle for a handle whose CLEANING flag is set is answered with
\* WEBRTC_STATE, and is neither queued nor given to ICE.
C11_TrickleQueue ==
    [][\A h \in HandleIds :
           (TrickleStep(h) /\ WellFormed(disp.req)) =>
               IF "CLEANING" \in handles[h].flags
               THEN /\ last'.error = "WEBRTC_STATE"
                    /\ Pending(h)' = Pending(h)
                    /\ ice_parsed'[h] = ice_parsed[h]
               ELSE IF QueueCond(handles[h]) THEN Queued(h)
               ELSE PassedOn(h)]_vars

C11_Witness ==
    /\ disp.pc = "idle"
    /\ last.janus = "trickle"
    /\ last.reply = "ack"
    /\ Pending(1) # <<>>
    /\ \E i \in DOMAIN ice_parsed[1] : ice_parsed[1][i][3] = "direct"

\* C12: a trickle request that carries both candidate and candidates is
\* answered with INVALID_JSON, one that carries neither with the error
\* MISSING_MANDATORY_ELEMENT; in both cases the handle (its queue and its
\* flags) and what ICE has been given are left as they were.
C12_BothOrNeither ==
    [][\A h \in HandleIds :
           LET both == disp.req.candidate # "absent"
                           /\ disp.req.candidates # "absent"
               neither == disp.req.candidate = "absent"
                              /\ disp.req.candidates = "absent"
           IN  TrickleStep(h) =>
                   /\ both => last'.error = "INVALID_JSON"
                   /\ neither => last'.error = "MISSING_MANDATORY_ELEMENT"
                   /\ (both \/ neither) =>
                          /\ handles'[h] = handles[h]
                          /\ ice_parsed' = ice_parsed]_vars

C12_Witness ==
    /\ disp.pc = "idle"
    /\ last.janus = "trickle"
    /\ last.error = "INVALID_JSON"
    /\ handles[1].stream
    /\ "TRICKLE" \notin handles[1].flags

\* C13: a message whose jsep is an answer with an SDP that parses, for a
\* handle that has no ICE agent (no offer went before), is answered with
\* UNEXPECTED_ANSWER and the worker does not go on to the plugin.
C13_UnexpectedAnswer ==
    [][(/\ wk.pc = "jsep" /\ wk' # wk
        /\ wk.type = "answer" /\ wk.sdp = "valid"
        /\ ~handles[wk.handle].agent) =>
           /\ wk'.pc = "idle"
           /\ wk'.reply = "error"
           /\ wk'.error = "UNEXPECTED_ANSWER"]_vars

C13_Witness ==
    /\ wk.pc = "idle"
    /\ wk.error = "UNEXPECTED_ANSWER"
    /\ ~handles[1].agent
    /\ "GOT_ANSWER" \in handles[1].flags

\* C14: every request the request thread takes is answered with exactly
\* one reply (one call of send_message), whether it is handled with success
\* or with an error, and the thread is then ready for the next request; a
\* message a pool worker handles is answered when the worker is done.
C14_OneResponse ==
    [][/\ (disp.pc # "idle" /\ disp'.pc = "idle") =>
              /\ last'.reply # "none"
              /\ last'.sent = 1
              /\ disp' = IdleDisp
       /\ (wk.pc # "idle" /\ wk'.pc = "idle") => wk'.reply # "none"]_vars

\* C15: the reply to a request that carried a transaction string carries
\* that transaction string, whatever the reply is.
C15_Transaction ==
    (last.reply # "none" /\ json_is_string(last.carried)) =>
        last.transaction = last.carried

\* C16: last_activity of a session never decreases while the session
\* lives: the time since last_activity only grows when time passes.
C16_Activity ==
    [][\A o \in Objs :
           (sess[o].st = "live" /\ sess'[o].st = "live") =>
               (sess'[o].idle <= sess[o].idle \/ Tick)]_vars

\* the step in which the handler answers a create request
CreateStep ==
    /\ disp.pc = "begin" /\ disp'.pc = "idle"
    /\ disp.req.janus = "create"
    /\ NoScope(disp.req)
C18_Conflict ==
    [][(CreateStep /\ IdTaken(disp.req)) =>
           /\ last'.error = "SESSION_CONFLICT"
           /\ sessions' = sessions
           /\ sess' = sess]_vars

\* C19: every session of the registry is a live session with an id that is
\* not 0, no two entries of the registry are the same session or sessions
\* with the same id, and janus_session_find on the id of a session of the
\* registry returns that session (the state inside janus_transport_gone,
\* with sessions_mutex held, between janus_session_destroy and the removal
\* of the entry, is left aside).
C19_Registry ==
    tr.pc # "remove" =>
        /\ \A o \in InTable :
               /\ sess[o].st = "live"
               /\ sess[o].session_id # 0
               /\ janus_session_find(sess[o].session_id) = o
        /\ \A i, j \in SessionIds :
               (i # j /\ sessions[i] # NULL /\ sessions[j] # NULL) =>
                   /\ sessions[i] # sessions[j]
                   /\ sess[sessions[i]].session_id #
                          sess[sessions[j]].session_id

\* the worker is in the wait loop and ends a sleep
PollStep == wk.pc = "wait" /\ wk' # wk
Cleaning == "CLEANING" \in handles[wk.handle].flags
TimedOut ==
    /\ wk'.pc = "idle"
    /\ wk'.reply = "error"
    /\ wk'.error = "WEBRTC_STATE"
\* a message with a jsep waits if and only if CLEANING is set
WaitEntered ==
    (wk.pc = "idle" /\ wk'.pc # "idle") =>
        (wk'.pc = "wait" <=> "CLEANING" \in handles[wk'.handle].flags)

\* C20 as the specification words it: the message goes on as soon as a poll
\* within the 3 s finds CLEANING clear, and is answered with WEBRTC_STATE
\* after 30 polls otherwise; the wait ends.
C20_AsWritten ==
    /\ [][/\ WaitEntered
          /\ PollStep =>
                 IF ~Cleaning THEN wk'.pc = "jsep"
                 ELSE IF wk.waited + 1 >= CleaningPolls THEN TimedOut
                 ELSE wk'.pc = "wait"]_vars
    /\ (wk.pc = "wait" ~> wk.pc # "wait")

\* C20, amended: a message with a jsep for a handle whose CLEANING flag is
\* set sleeps 100 ms at a time; after each of the first 29 sleeps it goes
\* on if CLEANING is clear and sleeps again if not; after the 30th sleep
\* it is answered with WEBRTC_STATE, whether CLEANING is still set or not;
\* the wait ends.
C20_CleaningWait ==
    /\ [][/\ WaitEntered
          /\ PollStep =>
                 IF wk.waited + 1 >= CleaningPolls THEN TimedOut
                 ELSE IF ~Cleaning THEN wk'.pc = "jsep"
                 ELSE wk'.pc = "wait" /\ wk'.waited = wk.waited + 1]_vars
    /\ (wk.pc = "wait" ~> wk.pc # "wait")

C20_Witness ==
    /\ wk.pc = "idle"
    /\ wk.error = "WEBRTC_STATE"
    /\ "CLEANING" \notin handles[1].flags

\* C21: OK with a JSON object gives success with that object as plugindata,
\* OK_WAIT gives ack with the text of the result as hint (none when it has
\* no text), an error result gives the error PLUGIN_MESSAGE; no result, and
\* OK with no content or with content that is no JSON object, give the
\* error PLUGIN_MESSAGE too: no reply carries a null as plugindata.
C21_ResultMapping ==
    /\ [][(wk.pc = "forward" /\ wk'.pc = "idle" /\ wk'.result # NoResult) =>
             LET r == wk'.result IN
             /\ (r.type = "OK" /\ r.content = "object") =>
                    /\ wk'.reply = "success"
                    /\ wk'.plugindata = "object"
             /\ r.type = "OK_WAIT" =>
                    /\ wk'.reply = "ack"
                    /\ wk'.hint = r.text
             /\ r.type = "ERROR" => wk'.error = "PLUGIN_MESSAGE"
             /\ (r.type = "NULL" \/ (r.type = "OK" /\ r.content # "object"))
                    => wk'.error = "PLUGIN_MESSAGE"]_vars
    /\ [](wk.reply = "success" => wk.plugindata = "object")

C21_Witness ==
    /\ wk.pc = "idle"
    /\ wk.result.type = "OK"
    /\ wk.result.content = "null"
    /\ wk.error = "PLUGIN_MESSAGE"

\* C22: a keepalive for a session of the registry is answered with ack and
\* sets last_activity of the session to the time of the request; between
\* the arrival of the request and its reply the request thread changes
\* nothing else: the registry, the destroyed and timeout flags and the
\* handle map of every session, last_activity of the other sessions, and
\* every handle with its flags and its queue of pending trickles are as
\* they were.
C22_Keepalive ==
    [][(disp.pc # "idle" /\ disp.req.janus = "keepalive"
           /\ disp' # disp /\ janus_session_find(disp.req.session_id) # NULL)
       => LET o == janus_session_find(disp.req.session_id) IN
          /\ disp'.pc = "idle" =>
                 /\ last'.reply = "ack"
                 /\ sess'[o].idle = 0
          /\ sessions' = sessions
          /\ handles' = handles
          /\ \A p \in Objs :
                 /\ sess'[p].st = sess[p].st
                 /\ sess'[p].destroyed = sess[p].destroyed
                 /\ sess'[p].timeout = sess[p].timeout
                 /\ sess'[p].ice_handles = sess[p].ice_handles
                 /\ sess'[p].session_id = sess[p].session_id
                 /\ (p # o \/ disp'.pc # "idle") =>
                        sess'[p].idle = sess[p].idle]_vars

C22_Witness ==
    /\ last.janus = "keepalive"
    /\ last.reply = "ack"
    /\ disp.pc = "idle"
    /\ sess[1].idle = 0
    /\ handles[1].pending_trickles # <<>>
    /\ "TRICKLE" \in handles[1].flags

\* C23: with an admin secret configured, an admin request for one of the
\* verbs that change state which carries no admin_secret, one that is no
\* string or one that differs from the configured secret is answered with
\* the error UNAUTHORIZED, and session_timeout, the other settings, the
\* tokens with the plugins they may use and the handles are as before.
C23_AdminSecret ==
    [][~(/\ last'.error = "UNAUTHORIZED"
         /\ UNCHANGED <<session_timeout, settings, tokens, allowed,
                        handles>>)
       => \A req \in {r \in AdminRequests :
                         r.admin_secret # admin_api_secret} :
              ~(admin_api_secret # NoStr /\ AdminRequest(req))]_vars

C23_Witness ==
    /\ admin_api_secret # NoStr
    /\ last.janus = "stop_text2pcap"
    /\ last.error = "UNAUTHORIZED"
    /\ handles[1].text2pcap
    /\ settings["set_log_level"] = 1
    /\ "tokenX" \notin tokens

\* C24: an info or ping request that carries no session id and no handle
\* id is answered with one message, server_info respectively pong, that
\* carries the transaction of the request, whatever its apisecret and token
\* fields hold and whatever secret or token authentication is configured;
\* nothing but the reply changes.
C24_InfoPing ==
    [][(/\ disp.pc = "begin"
        /\ disp' # disp
        /\ disp.req.janus \in {"info", "ping"}
        /\ disp.req.session_id = 0 /\ HandleNum(disp.req) = 0)
       => /\ disp'.pc = "idle"
          /\ last'.reply = IF disp.req.janus = "info" THEN "server_info"
                           ELSE "pong"
          /\ last'.error = "none"
          /\ last'.sent = 1
          /\ ~last'.denied
          /\ last'.transaction = disp.req.transaction
          /\ UNCHANGED <<session_timeout, authVars, sess, sessions,
                         sessions_mutex, handles, next_handle, wd, tr,
                         plugin_destroyed, sigVars>>]_vars

C24_Witness ==
    /\ last.reply = "pong"
    /\ last.sent = 1
    /\ api_secret # NoStr
    /\ auth_enabled
    /\ tokens = {}
    /\ disp.pc = "idle"

\* C25: with a timeout above 0, the round of a sweep tick on a session
\* expires it exactly when the session has been idle for the timeout, is not
\* destroyed and has its timeout flag clear, and the expiry sets the flag:
\* a session is expired by the first sweep tick that finds it idle.
C25_FirstTick ==
    [][\A o \in Objs :
           (/\ session_timeout > 0
            /\ wd.pc = "loop"
            /\ o \in wd.todo /\ o \notin wd'.todo)
           => /\ (sess[o].destroyed = 0 /\ sess'[o].destroyed # 0)
                    <=> /\ sess[o].idle >= session_timeout
                        /\ sess[o].destroyed = 0
                        /\ sess[o].timeout = 0
              /\ (sess[o].destroyed = 0 /\ sess'[o].destroyed # 0)
                    => sess[o].timeout = 0 /\ sess'[o].timeout = 1]_vars

\* C26: a session whose destroyed flag is set has an empty handle map, and
\* no handle that is still attached belongs to it: no attach that found the
\* session before it was destroyed inserts a handle afterwards.
C26_NoOrphan ==
    /\ \A o \in Objs : sess[o].destroyed # 0 => sess[o].ice_handles = {}
    /\ \A h \in HandleIds :
           (handles[h].st = "live" /\ handles[h].session # NULL)
               => sess[handles[h].session].destroyed = 0

\* C27: when no request and no callback of a plugin is being handled, no
\* reference taken by one is left and none was released twice: the counts
\* of every handle and plugin session are as the handlings found them, and
\* a session that is not destroyed holds the one reference of its creation.
C27_Balanced ==
    (disp.pc = "idle" /\ pl.pc = "idle" /\ wk.pc = "idle") =>
        /\ \A h \in HandleIds : handles[h].ref = 0 /\ handles[h].pref = 0
        /\ \A o \in Objs :
               (sess[o].st = "live" /\ sess[o].destroyed = 0)
                   => sess[o].ref = 1

\* C28: a step of a JSEP transition or of a trickle that changes GOT_OFFER,
\* GOT_ANSWER or PROCESSING_OFFER of a handle, or its queue of pending
\* trickles, is taken by a thread that holds the mutex of the handle.
C28_UnderMutex ==
    [][(\E h \in HandleIds :
           \/ handles'[h].pending_trickles # handles[h].pending_trickles
           \/ \E f \in {"GOT_OFFER", "GOT_ANSWER", "PROCESSING_OFFER"} :
                  (f \in handles'[h].flags) # (f \in handles[h].flags))
       => (Tick \/ HandleMutexHeld)]_vars

\* C29: the candidates of a handle reach janus_ice_trickle_parse in the
\* order in which their trickle requests were handled, and none reaches it
\* while the candidate of an earlier request is still in the queue of
\* pending trickles.
C29_TrickleOrder ==
    \A h \in HandleIds :
        /\ \A i, j \in DOMAIN ice_parsed[h] :
               i < j => ice_parsed[h][i][1] <= ice_parsed[h][j][1]
        /\ \A i \in DOMAIN ice_parsed[h] :
               \A k \in DOMAIN handles[h].pending_trickles :
                   ice_parsed[h][i][1] < handles[h].pending_trickles[k].id

\* C30: the origin transport of a session is told session_over at most
\* once for it and is sent at most one "timeout" event for it, also when a
\* destroy request that has found the session and the sweeper that expires
\* it interleave.
C30_OverOnce ==
    \A o \in Objs : sess[o].over <= 1 /\ sess[o].timeouts <= 1

\* the references to session object o that are held: the one of the
\* registry, until the session is destroyed, and the one of the request
\* thread, from janus_session_find to jsondone
Holders(o) ==
    (IF sess[o].st = "live" /\ sess[o].destroyed = 0 THEN 1 ELSE 0)
    + (IF disp.pc \in {"found", "destroy"} /\ disp.session = o THEN 1 ELSE 0)

\* this step is a call of janus_session_destroy on session object o: by
\* the destroy verb, by the sweeper or by janus_transport_gone
DestroyCall(o) ==
    \/ disp.pc = "destroy" /\ disp.session = o /\ disp'.pc = "idle"
    \/ wd.pc = "loop" /\ o \in wd.todo /\ o \notin wd'.todo
       /\ sess[o].destroyed = 0 /\ CheckExpired(sess[o])
    \/ tr.pc = "loop" /\ tr'.pc = "remove" /\ tr'.cur = o

\* C31: under any interleaving of the destroy verb, the sweeper and
\* janus_transport_gone on a session, a call of janus_session_destroy that
\* finds destroyed set clears no handle and releases nothing but the
\* caller's own reference; the reference count of a session is the number
\* of its holders, so the reference of the registry is released once; the
\* finalizer runs when no holder remains, and once.
C31_DestroyOnce ==
    /\ [](\A o \in Objs :
              /\ sess[o].st = "live" =>
                     sess[o].ref = Holders(o) /\ sess[o].ref > 0
              /\ sess[o].st = "freed" =>
                     sess[o].ref = 0 /\ Holders(o) = 0)
    /\ [][\A o \in Objs :
              /\ (DestroyCall(o) /\ sess[o].destroyed # 0) =>
                     /\ handles' = handles
                     /\ sess'[o].ice_handles = sess[o].ice_handles
                            \/ sess'[o].st = "freed"
                     /\ sess'[o].ref = sess[o].ref - (Holders(o) - Holders(o)')
              /\ sess[o].st = "freed" => sess'[o] = sess[o]]_vars

\* a session the sweeper has expired and the destroy verb has then
\* destroyed again, freed by the request thread
C31_Witness ==
    /\ disp.pc = "idle"
    /\ last.janus = "destroy"
    /\ last.reply = "success"
    /\ \E o \in Objs :
           /\ last.session = o
           /\ sess[o].st = "freed"
           /\ sess[o].timeouts = 1
           /\ sess[o].over = 2

\* the signalling state of a handle record: which of GOT_OFFER and
\* GOT_ANSWER are set
Signalling(hd) == hd.flags \cap {"GOT_OFFER", "GOT_ANSWER"}

\* this step is a pool worker that ends the handling of a jsep, with the
\* handle locked, with an error reply
JsepRefused ==
    /\ wk.pc = "jsep"
    /\ wk'.pc = "idle"
    /\ wk'.reply = "error"

\* C32: an inbound jsep that is refused with an error (unknown type,
\* invalid SDP, unexpected answer, ICE setup failure, SDP processing
\* failure) leaves GOT_OFFER and GOT_ANSWER of the handle as they were
\* before the request.
C32_RefusedKeepsFlags ==
    [][JsepRefused =>
           Signalling(handles'[wk.handle]) = Signalling(handles[wk.handle])]_vars

\* C33: in inbound jsep processing an offer sets PROCESSING_OFFER and
\* GOT_OFFER and clears GOT_ANSWER, an answer sets GOT_ANSWER; and when the
\* handling of the message ends, with success or with any error, the worker
\* leaves PROCESSING_OFFER of the handle clear.
C33_ProcessingOffer ==
    [][/\ (wk.pc = "jsep" /\ wk'.pc = "forward") =>
              LET flags == handles'[wk.handle].flags IN
              IF wk.type = "offer"
              THEN /\ {"PROCESSING_OFFER", "GOT_OFFER"} \subseteq flags
                   /\ "GOT_ANSWER" \notin flags
              ELSE "GOT_ANSWER" \in flags
       /\ (wk.pc \in {"jsep", "forward"} /\ wk.type # "none"
              /\ wk'.pc = "idle") =>
              "PROCESSING_OFFER" \notin handles'[wk.handle].flags]_vars

\* an offer of the client that follows an answer has been handled to the
\* reply of the plugin
C33_Witness ==
    /\ wk.pc = "idle"
    /\ wk.reply = "success"
    /\ pl.pc = "idle"
    /\ handles[1].flags \cap {"PROCESSING_OFFER", "GOT_OFFER", "GOT_ANSWER"}
           = {"GOT_OFFER"}
    /\ "TRICKLE" \in handles[1].flags

\* C34: the wait for the gathering of the candidates in
\* janus_plugin_handle_sdp always ends: when the gathering has completed,
\* when STOP or ALERT is set on the handle, on a negative completion, and in
\* any case after at most 3 s, that is 30 sleeps of 100 ms.
C34_GatherEnds ==
    /\ [](pl.pc = "gather" => pl.waited <= CleaningPolls)
    /\ (pl.pc = "gather") ~> (pl.pc # "gather")

\* the request thread has ended
DispatcherEnded == main.dispatcher = "ended"

\* the pool is freed and none of its tasks is left
PoolDrained ==
    /\ main.pool = "freed"
    /\ \A n \in RequestNums : main.reqs[n].st \notin {"pool", "task"}

\* the sessions that were in the registry are destroyed: the table is
\* gone, the destroyed flag of every session is set, its handles are gone
SessionsDestroyed ==
    /\ main.table = "destroyed"
    /\ \A o \in Objs :
           sess[o].st = "live" =>
               sess[o].destroyed # 0 /\ sess[o].ice_handles = {}

\* this step sends a reply to a request
ReplySent ==
    \/ last' # last /\ last'.sent > 0
    \/ wk.pc # "idle" /\ wk'.pc = "idle"

\* C35: on a global stop the request thread gets the sentinel and ends,
\* then the loop of the sweeper is quit, then the pool is drained, then
\* every session of the registry is destroyed, and only then are the
\* transports and the plugins torn down; no request is handled and no
\* reply is sent on a transport after it was torn down.
C35_ShutdownOrder ==
    /\ [](/\ wd.pc = "quit" => DispatcherEnded
          /\ main.pool = "freed" => wd.pc = "quit"
          /\ main.table = "destroyed" => PoolDrained
          /\ (main.transports = "down" \/ main.plugins = "down") =>
                 /\ SessionsDestroyed
                 /\ disp.pc = "idle"
                 /\ wk.pc = "idle")
    /\ [][main.transports = "down" => ~ReplySent]_vars

\* what a hangup or the removal of a handle changes: the state of the
\* handles but for the counts of the references, and the handle maps
TornDown(H, S) ==
    <<[h \in HandleIds |-> [H[h] EXCEPT !.ref = 0, !.pref = 0]],
      [o \in Objs |-> S[o].ice_handles], plugin_destroyed>>

\* this step is the callback of a close_pc or of an end_session, run by
\* the thread of the watchdog context
DeferredRuns == pl.pc \in {"close_pc", "end_session"} /\ pl'.pc = "idle"

\* C36: close_pc and end_session called by a plugin do no hangup and
\* remove no handle on the calling thread, they only leave a callback to
\* the timer loop; the hangup or the removal is done later by the callback,
\* on the thread of that loop; and the callback does nothing when STOP or
\* ALERT is set on the handle.
C36_Deferred ==
    [][/\ (pl.pc = "idle" /\ pl'.pc \in {"close_pc", "end_session"}) =>
              /\ TornDown(handles', sess') = TornDown(handles, sess)
              /\ plugin_destroyed' = plugin_destroyed
       /\ (disp' = disp /\ ~DeferredRuns) =>
              /\ TornDown(handles', sess') = TornDown(handles, sess)
              /\ plugin_destroyed' = plugin_destroyed
       /\ (DeferredRuns /\ PluginInternal(TRUE)) =>
              /\ TornDown(handles', sess') = TornDown(handles, sess)
              /\ plugin_destroyed' = plugin_destroyed]_vars

\* the callback of an end_session has removed the handle from its session
C36_Witness ==
    /\ pl.pc = "idle"
    /\ handles[1].st = "destroyed"
    /\ 1 \in plugin_destroyed
    /\ 1 \notin sess[1].ice_handles
    /\ handles[1].ref = 1

\* request n has arrived and is no plugin message: an admin request, or a
\* request of another verb than "message"
Control(n) ==
    /\ main.reqs[n].st # "new"
    /\ ~(~main.reqs[n].admin /\ main.reqs[n].janus = "message")

\* the request thread has begun to handle request n
Begun(n) == main.reqs[n].st \in {"inline", "done"}

\* C37: the requests that are no plugin messages are handled in the order
\* of their arrival, one at a time: when the handling of one begins, every
\* such request that was enqueued before it has been handled to its end,
\* its reply sent.
C37_ControlFifo ==
    /\ [](\A n \in RequestNums : (Control(n) /\ Begun(n)) =>
              \A m \in 1..(n - 1) : Control(m) =>
                  /\ main.reqs[m].st = "done"
                  /\ main.reqs[m].replies = 1
                  /\ main.reqs[m].freed = "dispatcher")
    /\ [](Cardinality({n \in RequestNums : main.reqs[n].st = "inline"}) <= 1)
    /\ [][\A n \in RequestNums :
              (main.reqs[n].st = "queued" /\ main'.reqs[n].st = "inline") =>
                  /\ disp.pc = "idle"
                  /\ main.dispatcher = "pop"
                  /\ Head(requests) = n]_vars

\* an admin request and then a keepalive have been handled, each with its
\* reply, while a message enqueued before them is still with the pool
C37_Witness ==
    /\ main.reqs[1].janus = "message" /\ ~main.reqs[1].admin
    /\ main.reqs[1].st \in {"pool", "task"}
    /\ main.reqs[2].admin /\ main.reqs[2].st = "done"
    /\ main.reqs[2].replies = 1
    /\ ~main.reqs[3].admin /\ main.reqs[3].janus = "keepalive"
    /\ main.reqs[3].st = "done" /\ main.reqs[3].replies = 1

\* the request thread takes request n from the queue in this step
Taken(n) == main.reqs[n].st = "queued" /\ main'.reqs[n].st # "queued"

\* the request thread ends the body of its loop for request n in this step
Left(n) == main.dispatcher = "handling" /\ main.cur = n /\ main'.cur # n

\* C38: the request thread handles a request itself exactly when it is an
\* admin request or its verb is not "message"; a message that is no admin
\* request is pushed to the pool, which destroys it, and the request thread
\* goes on without waiting for it; when the push fails the request thread
\* answers with the error UNKNOWN and destroys the request itself.
C38_Dispatch ==
    /\ [][\A n \in RequestNums : Taken(n) =>
              LET r == main.reqs[n]
                  st == main'.reqs[n].st
              IN  /\ (st = "inline") <=> (r.admin \/ r.janus # "message")
                  /\ (st \in {"pool", "failed"}) <=>
                         (~r.admin /\ r.janus = "message")
                  /\ st = "failed" =>
                         /\ last'.reply = "error"
                         /\ last'.error = "UNKNOWN"
                         /\ main'.reqs[n].replies = 1
                  /\ st = "pool" => last' = last /\ disp' = disp]_vars
    /\ [][\A n \in RequestNums : Left(n) =>
              IF main.reqs[n].st \in {"inline", "failed"}
              THEN /\ main'.reqs[n].st = "done"
                   /\ main'.reqs[n].freed = "dispatcher"
              ELSE main'.reqs[n] = main.reqs[n]]_vars
    /\ [](\A n \in RequestNums :
              LET r == main.reqs[n] IN
              /\ r.freed # "none" <=> r.st = "done"
              /\ r.freed = "pool" => ~r.admin /\ r.janus = "message"
              /\ r.st = "done" => r.replies = 1)
    /\ [](\A n \in RequestNums :
              (/\ main.dispatcher = "handling"
               /\ main.cur = n
               /\ ~main.reqs[n].admin
               /\ main.reqs[n].janus = "message") => ENABLED LoopEnd)

\* the request thread is back at the queue while a pool thread handles the
\* message it pushed; it answered a second message itself, the push having
\* failed, and an admin request of the verb "message" as well
C38_Witness ==
    /\ main.dispatcher = "pop"
    /\ main.reqs[1].st = "task"
    /\ ~main.reqs[2].admin /\ main.reqs[2].janus = "message"
    /\ main.reqs[2].st = "done" /\ main.reqs[2].freed = "dispatcher"
    /\ main.reqs[3].admin /\ main.reqs[3].janus = "message"
    /\ main.reqs[3].st = "done"

\* the request the request thread handles is addressed to a session and is
\* refused by janus_request_check_secret, in this step or in an earlier one
Refused ==
    \/ /\ disp.pc = "begin"
       /\ disp.req.session_id >= 1
       /\ ~(\/ api_secret # NoStr /\ disp.req.apisecret = api_secret
            \/ auth_enabled /\ disp.req.token \in tokens
            \/ api_secret = NoStr /\ ~auth_enabled)
    \/ disp.pc \notin {"idle", "begin"} /\ last.denied

\* C39: a request addressed to a session that is refused as UNAUTHORIZED
\* changes nothing: no session is looked up or referenced, last_activity
\* of no session is written, the registry and the handles stay as they
\* are, and the handling ends with the refusal.
C39_UnauthorizedNoEffect ==
    [][(Refused /\ disp' # disp) =>
           /\ disp'.pc = "idle"
           /\ sess' = sess
           /\ sessions' = sessions
           /\ handles' = handles]_vars

\* C40: the handler of the requests only unlocks a session mutex or a
\* handle mutex that its thread holds, and has released every mutex it
\* locked when it returns, on the error paths of attach, of the handling of
\* a JSEP and of trickle too.
C40_MutexDiscipline ==
    /\ unheld = {}
    /\ disp.pc = "idle" => sessions_mutex # "disp"

====
